---- MODULE Spec2Model ----
(***************************************************************************)
(* Match-scoring, ranking and indexing core of the career-platform backend *)
(* ("AI Job Alchemist"): MatchingService, ResumeService, the Qdrant vector *)
(* repository and the Firestore job/resume repositories.                   *)
(*                                                                         *)
(* Numbers.  Python floats are modelled as exact rationals with fixed      *)
(* denominators:                                                           *)
(*   - a similarity s in [-1,1] is the integer s*SimScale;                 *)
(*   - an experience score e in [0,1] is the integer e*ExpScale;           *)
(*   - every value the code passes through round(x*100, 1) is the integer  *)
(*     number of tenths of a percent (95.0 is 950).                        *)
(* round() is round-half-to-even, applied to the exact value.              *)
(***************************************************************************)
EXTENDS Integers, Sequences, FiniteSets, TLC

VARIABLES
    jobStore,       \* Firestore collection "jobs":    job id    -> record or NoRecord
    resumeStore,    \* Firestore collection "resumes": resume id -> record or NoRecord
    jobsIndex,      \* Qdrant collection of job vectors:    point id -> payload or NoPoint
    resumesIndex,   \* Qdrant collection of resume vectors: point id -> payload or NoPoint
    collections,    \* names of the Qdrant collections that exist
    minted,         \* number of uuid4 values minted so far, per use
    last,           \* the most recent completed request and its response
    req,            \* in-flight index_job requests, one per worker
    score,          \* inputs and result of the latest calculate_match_score call
    users,          \* SQL table "users": email -> row or NoRecord
    issued,         \* per email: the code of the newest OTP mail, the token pairs issued since
    clock,          \* datetime.utcnow(), in minutes
    applications,   \* SQL table "applications": the rows, in insertion order
    interviews,     \* Firestore collection "interviews": interview id -> record or NoRecord
    acknowledged    \* the submit_response calls that returned their feedback to the client

vars ==
    <<jobStore, resumeStore, jobsIndex, resumesIndex, collections, minted, last, req, score,
      users, issued, clock, applications, interviews, acknowledged>>

----------------------------------------------------------------------------
(* Bounds of the model *)

MaxDocs == 2        \* documents created in each primary-store collection in one behaviour
MaxPoints == 2      \* point ids minted for each vector collection in one behaviour
MaxLimit == 2       \* largest `limit` a ranking request is made with
MaxYears == 12      \* largest experience_years drawn for a scored resume
MaxSkills == 3      \* longest skill list handed to the skill comparator on its own
MaxCareer == 30     \* largest years handed to the experience scorer on its own
SimStep == 2        \* grid step of the similarities drawn for a scored pair
MaxClock == 30      \* the latest minute the clock reaches in one behaviour
MaxApplications == 3    \* rows inserted into the applications table in one behaviour
MaxTokens == 2      \* token pairs counted per OTP mail (a second pair is already one too many)

(* Fixed-point denominators *)
SimScale == 1000    \* similarity 1.0
ExpScale == 420     \* experience score 1.0 (divisible by every band minimum and by 20)

----------------------------------------------------------------------------
(* Arithmetic helpers *)

Max(a, b) == IF a >= b THEN a ELSE b

Min(a, b) == IF a <= b THEN a ELSE b

\* round(n/d) to the nearest integer, ties to the even neighbour (Python 3 round)
RoundHalfEven(n, d) ==
    LET q == n \div d
        r == n % d
    IN  IF 2 * r < d THEN q
        ELSE IF 2 * r > d THEN q + 1
        ELSE IF q % 2 = 0 THEN q ELSE q + 1

----------------------------------------------------------------------------
(* Skills: str.lower() and str.title() on the skill labels of the model *)

Lower(s) ==
    CASE s = "Python" -> "python"
      [] s = "python" -> "python"
      [] s = "AWS" -> "aws"
      [] s = "aws" -> "aws"
      [] s = "Docker" -> "docker"
      [] s = "Kubernetes" -> "kubernetes"
      [] OTHER -> s

Title(s) ==
    CASE s = "python" -> "Python"
      [] s = "aws" -> "Aws"
      [] s = "docker" -> "Docker"
      [] s = "kubernetes" -> "Kubernetes"
      [] OTHER -> s

LowerSet(skills) == {Lower(skills[i]) : i \in DOMAIN skills}

\* the percentage cut to one decimal instead of rounded
MatchPercentageTruncated(matching, job_skills_lower) ==
    IF job_skills_lower # {}
    THEN (Cardinality(matching) * 1000) \div Cardinality(job_skills_lower)
    ELSE 1000

\* no requirements counted as nothing matched
MatchPercentageZeroWhenEmpty(matching, job_skills_lower) ==
    IF job_skills_lower # {}
    THEN RoundHalfEven(Cardinality(matching) * 1000, Cardinality(job_skills_lower))
    ELSE 0

\* _analyze_skills: match_percentage is in tenths of a percent
MatchPercentage(matching, job_skills_lower) ==
    IF job_skills_lower # {}
    THEN RoundHalfEven(Cardinality(matching) * 1000, Cardinality(job_skills_lower))
    ELSE 1000

AnalyzeSkills(resume_skills, job_skills) ==
    LET resume_skills_lower == LowerSet(resume_skills)
        job_skills_lower == LowerSet(job_skills)
        matching == resume_skills_lower \cap job_skills_lower
        missing == job_skills_lower \ resume_skills_lower
        extra == resume_skills_lower \ job_skills_lower
    IN  [ matching |-> {Title(s) : s \in matching},
          missing |-> {Title(s) : s \in missing},
          extra |-> {Title(s) : s \in extra},
          match_percentage |-> MatchPercentage(matching, job_skills_lower) ]

----------------------------------------------------------------------------
(* Experience fit *)

LevelLabels == {"", "entry", "junior", "mid", "senior", "Senior", "lead", "principal", "expert"}

LowerLevel(level) ==
    CASE level = "Senior" -> "senior"
      [] level = "LEAD" -> "lead"
      [] level = "Entry" -> "entry"
      [] OTHER -> level

\* level_requirements.get(level_lower, (3, 5))
LevelRequirements(level_lower) ==
    CASE level_lower = "entry" -> <<0, 2>>
      [] level_lower = "junior" -> <<1, 3>>
      [] level_lower = "mid" -> <<3, 5>>
      [] level_lower = "senior" -> <<5, 10>>
      [] level_lower = "lead" -> <<7, 15>>
      [] level_lower = "principal" -> <<10, 20>>
      [] OTHER -> <<3, 5>>

\* the under-experience branch without its 0.5 floor
CalculateExperienceScoreNoFloor(years, level) ==
    LET level_lower == IF level # "" THEN LowerLevel(level) ELSE "mid"
        min_years == LevelRequirements(level_lower)[1]
        max_years == LevelRequirements(level_lower)[2]
    IN  IF min_years <= years /\ years <= max_years THEN ExpScale
        ELSE IF years < min_years
             THEN (years * ExpScale) \div min_years
             ELSE Max((ExpScale * 7) \div 10,
                      ExpScale - (years - max_years) * (ExpScale \div 20))

\* the over-experience branch without its 0.7 floor
CalculateExperienceScoreNoCeilingFloor(years, level) ==
    LET level_lower == IF level # "" THEN LowerLevel(level) ELSE "mid"
        min_years == LevelRequirements(level_lower)[1]
        max_years == LevelRequirements(level_lower)[2]
    IN  IF min_years <= years /\ years <= max_years THEN ExpScale
        ELSE IF years < min_years
             THEN Max(ExpScale \div 2, (years * ExpScale) \div min_years)
             ELSE ExpScale - (years - max_years) * (ExpScale \div 20)

\* _calculate_experience_score, in units of 1/ExpScale
CalculateExperienceScore(years, level) ==
    LET level_lower == IF level # "" THEN LowerLevel(level) ELSE "mid"
        min_years == LevelRequirements(level_lower)[1]
        max_years == LevelRequirements(level_lower)[2]
    IN  IF min_years <= years /\ years <= max_years THEN ExpScale
        ELSE IF years < min_years
             THEN Max(ExpScale \div 2, (years * ExpScale) \div min_years)
             ELSE Max((ExpScale * 7) \div 10,
                      ExpScale - (years - max_years) * (ExpScale \div 20))

----------------------------------------------------------------------------
(* Detailed match score of one (resume, job) pair *)

\* denominator of combined_score: 0.50, 0.35 and 0.15 are 10/20, 7/20 and 3/20
CombDen == 20 * SimScale * ExpScale

\* skill_score = match_percentage / 100, in units of 1/SimScale
SkillScore(match_percentage) == (match_percentage * SimScale) \div 1000

\* the list-ranking weights (0.60 and 0.40, no experience term) in the detailed score
CombinedScoreListWeights(similarity, skill_score, exp_score) ==
    similarity * ExpScale * 12 + skill_score * ExpScale * 8

\* similarity * 0.50 + skill_score * 0.35 + exp_score * 0.15, in units of 1/CombDen
CombinedScore(similarity, skill_score, exp_score) ==
    similarity * ExpScale * 10 + skill_score * ExpScale * 7 + exp_score * SimScale * 3

MatchLevel(combined_score) ==
    IF combined_score * 10 >= 8 * CombDen THEN "Excellent Match"
    ELSE IF combined_score * 10 >= 6 * CombDen THEN "Good Match"
    ELSE IF combined_score * 10 >= 4 * CombDen THEN "Partial Match"
    ELSE "Low Match"

Take(s, n) == SubSeq(s, 1, Min(n, Len(s)))

\* the rules without the final [:4]
GenerateMatchRecommendationsUncapped(skill_analysis, exp_score, overall_score) ==
    LET r1 == IF skill_analysis.missing # {} THEN <<"consider_learning">> ELSE <<>>
        r2 == IF skill_analysis.match_percentage < 500 THEN <<"acquire_skills">> ELSE <<>>
        r3 == IF exp_score * 10 < 7 * ExpScale THEN <<"experience_gap">> ELSE <<>>
        r4 == IF overall_score * 10 >= 7 * CombDen THEN <<"strong_match">>
              ELSE IF overall_score * 2 >= CombDen THEN <<"good_potential">>
              ELSE <<>>
        r5 == IF skill_analysis.extra # {} THEN <<"highlight_extra">> ELSE <<>>
    IN  r1 \o r2 \o r3 \o r4 \o r5

\* the rules with the experience rule left out
GenerateMatchRecommendationsNoExperience(skill_analysis, exp_score, overall_score) ==
    LET r1 == IF skill_analysis.missing # {} THEN <<"consider_learning">> ELSE <<>>
        r2 == IF skill_analysis.match_percentage < 500 THEN <<"acquire_skills">> ELSE <<>>
        r4 == IF overall_score * 10 >= 7 * CombDen THEN <<"strong_match">>
              ELSE IF overall_score * 2 >= CombDen THEN <<"good_potential">>
              ELSE <<>>
        r5 == IF skill_analysis.extra # {} THEN <<"highlight_extra">> ELSE <<>>
    IN  Take(r1 \o r2 \o r4 \o r5, 4)

\* _generate_match_recommendations; each string is named by the rule that appends it
GenerateMatchRecommendations(skill_analysis, exp_score, overall_score) ==
    LET r1 == IF skill_analysis.missing # {} THEN <<"consider_learning">> ELSE <<>>
        r2 == IF skill_analysis.match_percentage < 500 THEN <<"acquire_skills">> ELSE <<>>
        r3 == IF exp_score * 10 < 7 * ExpScale THEN <<"experience_gap">> ELSE <<>>
        r4 == IF overall_score * 10 >= 7 * CombDen THEN <<"strong_match">>
              ELSE IF overall_score * 2 >= CombDen THEN <<"good_potential">>
              ELSE <<>>
        r5 == IF skill_analysis.extra # {} THEN <<"highlight_extra">> ELSE <<>>
    IN  Take(r1 \o r2 \o r3 \o r4 \o r5, 4)

\* calculate_match_score, given the cosine similarity of the two embeddings
CalculateMatchScore(similarity, resume_skills, job_skills, years, level) ==
    LET skill_analysis == AnalyzeSkills(resume_skills, job_skills)
        skill_score == SkillScore(skill_analysis.match_percentage)
        exp_score == CalculateExperienceScore(years, level)
        combined_score == CombinedScore(similarity, skill_score, exp_score)
    IN  [ overall_score |-> RoundHalfEven(combined_score, CombDen \div 1000),
          match_level |-> MatchLevel(combined_score),
          semantic_score |-> RoundHalfEven(similarity * 1000, SimScale),
          skill_score |-> RoundHalfEven(skill_score * 1000, SimScale),
          experience_score |-> RoundHalfEven(exp_score * 1000, ExpScale),
          matching_skills |-> skill_analysis.matching,
          missing_skills |-> skill_analysis.missing,
          extra_skills |-> skill_analysis.extra,
          skill_match_percentage |-> skill_analysis.match_percentage,
          recommendations |-> GenerateMatchRecommendations(skill_analysis, exp_score, combined_score) ]

----------------------------------------------------------------------------
(* Values of the stores, the indexes and the request records *)

NoRecord == [exists |-> FALSE]      \* no document under this id (never created, or deleted)
NoPoint == [exists |-> FALSE]
NoResult == [exists |-> FALSE]
NoArgs == [none |-> TRUE]

\* uuid4 values, numbered in the order they are minted: the ids of job documents,
\* of resume documents and of index points all come from uuid.uuid4()
JobIds == 1..MaxDocs
ResumeIds == 1..MaxDocs
PointIds == 1..MaxPoints
NoneMinted == [jobs |-> 0, resumes |-> 0, jobPoints |-> 0, resumePoints |-> 0]

UserIds == {"u1", "u2"}
Uploaders == {"u1"}      \* the users who upload resumes
Workers == {"w1", "w2"}

SkillLists ==
    { <<>>, <<"Python">>, <<"python", "AWS">>, <<"Python", "aws", "Docker">>, <<"Kubernetes">> }

SimValues == {k * SimStep : k \in (0 - (SimScale \div SimStep))..(SimScale \div SimStep)}

\* `last` after a request other than an upload or a ranking call
IdleLast == [op |-> "none"]
IdleReq == [w \in Workers |-> [pc |-> "idle"]]
IdleScore == [pc |-> "none"]

\* the users table, the applications table and the interviews collection when empty
Emails == {"ann@example.com", "bob@example.com"}
InterviewIds == {"i1"}
NoUsers == [e \in Emails |-> NoRecord]
None == "None"      \* a NULL string column
NoTime == 0 - 1     \* a NULL datetime column
NoneIssued == [e \in Emails |-> [code |-> None, tokens |-> 0]]
NoApplications == <<>>
NoInterviews == [i \in InterviewIds |-> NoRecord]

----------------------------------------------------------------------------
(* Inputs of the requests *)

\* job_data of create_job
JobData ==
    { [ company |-> "Google", skills_required |-> <<"python", "AWS">>, location |-> "NYC",
        job_type |-> "full_time", salary_max |-> 100, experience_level |-> "senior" ],
      [ company |-> "Meta", skills_required |-> <<>>, location |-> "Remote",
        job_type |-> "remote", salary_max |-> 0, experience_level |-> "" ] }

\* company filter of search_jobs_semantic ("" is None)
CompanyQueries == {"", "goo"}

\* what the document parser extracts from an uploaded file
ResumeData ==
    { [ skills |-> <<"Python">>, experience_years |-> 2 ],
      [ skills |-> <<"Python", "aws", "Docker">>, experience_years |-> 6 ] }

\* the skills field of a PATCH /resumes/{id} body: absent, or a new list
SkillUpdates == { [given |-> FALSE, skills |-> <<>>], [given |-> TRUE, skills |-> <<"Python">>] }

\* similarity scores the index can report for a point (cosine, in 1/SimScale)
HitScores == {150, 905}

\* score_threshold of search_jobs_semantic
SemanticThreshold == 200

\* min_score / 100 with the filters of a job search ("" and 0 are None)
JobQueries ==
    { [min_score |-> 0, location |-> "", job_type |-> "", salary_min |-> 0],
      [min_score |-> 800, location |-> "NYC", job_type |-> "full_time", salary_min |-> 0],
      [min_score |-> 0, location |-> "", job_type |-> "", salary_min |-> 120] }

\* min_score / 100 and min_experience of a candidate search (0 is None)
CandidateQueries ==
    { [min_score |-> 0, min_experience |-> 0],
      [min_score |-> 300, min_experience |-> 5] }

\* the step at which a request's dependency fails, if any:
\*   "pre"    validation, parsing or the file upload, before the record is created
\*   "embed"  the embedding model
\*   "ensure" the vector index, inside _ensure_collection (get and create both raise)
\*   "index"  the vector index, in the upsert or search after _ensure_collection
\*   "write"  the write to the primary store that follows indexing
RankingFailures == {"none", "embed", "ensure", "index"}
IndexingFailures == {"none", "embed", "ensure", "index", "write"}
UploadFailures == {"none", "pre", "embed", "ensure", "index", "write"}

----------------------------------------------------------------------------
(* Vector repository (Qdrant) *)

\* _ensure_collection
EnsureCollection(colls, name) == colls \cup {name}

\* upsert_vector: one point per id, replaced in place
UpsertVector(index, id, payload) == [index EXCEPT ![id] = payload]

\* Filter(must = [FieldCondition(key, MatchValue(value)) ...]); filters is a set of <<key, value>>
MatchesFilters(payload, filters) == \A f \in filters : payload[f[1]] = f[2]

\* ids of the points of a collection
Points(index) == {p \in PointIds : index[p].exists}

Eligible(index, sc, filters, score_threshold) ==
    {p \in PointIds : index[p].exists /\ MatchesFilters(index[p], filters) /\ sc[p] >= score_threshold}

\* search_similar: the `limit` best eligible points, best first; ties in any order
SearchSimilar(index, sc, limit, filters, score_threshold) ==
    LET E == Eligible(index, sc, filters, score_threshold)
        n == Min(limit, Cardinality(E))
    IN  { [i \in 1..n |-> [id |-> h[i], score |-> sc[h[i]], payload |-> index[h[i]]]] :
            h \in { g \in [1..n -> E] :
                      /\ \A i, k \in 1..n : i < k => g[i] # g[k] /\ sc[g[i]] >= sc[g[k]]
                      /\ \A p \in E : (\A i \in 1..n : g[i] # p) =>
                                          \A i \in 1..n : sc[g[i]] >= sc[p] } }

----------------------------------------------------------------------------
(* Ranking pipeline *)

RECURSIVE InsertByScore(_, _)
\* position of item in a list kept in descending match_score order, after its equals
InsertByScore(item, sorted) ==
    IF sorted = <<>> THEN <<item>>
    ELSE IF Head(sorted).match_score >= item.match_score
         THEN <<Head(sorted)>> \o InsertByScore(item, Tail(sorted))
         ELSE <<item>> \o sorted

RECURSIVE SortByScoreDesc(_)
\* list.sort(key = match_score, reverse = True): stable, descending
SortByScoreDesc(items) ==
    IF items = <<>> THEN <<>>
    ELSE InsertByScore(items[Len(items)], SortByScoreDesc(SubSeq(items, 1, Len(items) - 1)))

\* the same without the sort: the first `limit` entries in hit order
RankAndLimitUnsorted(enriched_results, limit) == Take(enriched_results, limit)

\* enriched_results.sort(...); return enriched_results[:limit]
RankAndLimit(enriched_results, limit) == Take(SortByScoreDesc(enriched_results), limit)

\* the two factors weighted equally
ListMatchScoreEqualWeights(semantic_score, skill_score) ==
    RoundHalfEven((semantic_score * 5 + skill_score * 5) * 100, SimScale)

\* combined_score = semantic_score * 0.6 + skill_score * 0.4, reported as
\* round(combined_score * 100, 1)
ListMatchScore(semantic_score, skill_score) ==
    RoundHalfEven((semantic_score * 6 + skill_score * 4) * 100, SimScale)

\* one entry of find_matching_jobs' enriched_results, for hit number i
JobItem(hit, i, job, resume_skills) ==
    LET skill_analysis == AnalyzeSkills(resume_skills, job.skills_required)
        skill_score == SkillScore(skill_analysis.match_percentage)
    IN  [ job_id |-> hit.payload.job_id,
          match_score |-> ListMatchScore(hit.score, skill_score),
          semantic_score |-> RoundHalfEven(hit.score * 1000, SimScale),
          skill_score |-> RoundHalfEven(skill_score * 1000, SimScale),
          matching_skills |-> skill_analysis.matching,
          missing_skills |-> skill_analysis.missing,
          skill_match_percentage |-> skill_analysis.match_percentage,
          hit |-> i ]

\* the salary `continue` of find_matching_jobs (0 is None, and falsy like None)
SalaryTooLow(job, salary_min) ==
    salary_min # 0 /\ job.salary_max # 0 /\ job.salary_max < salary_min

RECURSIVE EnrichJobsFrom(_, _, _, _, _)
\* the enrichment loop of find_matching_jobs over hits[i..]
EnrichJobsFrom(i, hits, store, resume_skills, salary_min) ==
    IF i > Len(hits) THEN <<>>
    ELSE LET job == store[hits[i].payload.job_id]
             rest == EnrichJobsFrom(i + 1, hits, store, resume_skills, salary_min)
         IN  IF job.exists /\ ~SalaryTooLow(job, salary_min)
             THEN <<JobItem(hits[i], i, job, resume_skills)>> \o rest
             ELSE rest

RECURSIVE EnrichJobsUntilMissingFrom(_, _, _, _, _)
\* the loop giving up at the first hit without a job record
EnrichJobsUntilMissingFrom(i, hits, store, resume_skills, salary_min) ==
    IF i > Len(hits) \/ ~store[hits[i].payload.job_id].exists THEN <<>>
    ELSE LET job == store[hits[i].payload.job_id]
             rest == EnrichJobsUntilMissingFrom(i + 1, hits, store, resume_skills, salary_min)
         IN  IF ~SalaryTooLow(job, salary_min)
             THEN <<JobItem(hits[i], i, job, resume_skills)>> \o rest
             ELSE rest

EnrichJobsUntilMissing(hits, store, resume_skills, salary_min) ==
    EnrichJobsUntilMissingFrom(1, hits, store, resume_skills, salary_min)

EnrichJobs(hits, store, resume_skills, salary_min) ==
    EnrichJobsFrom(1, hits, store, resume_skills, salary_min)

\* one entry of search_jobs_semantic's enriched_results
SemanticItem(hit, i) ==
    [ job_id |-> hit.payload.job_id,
      relevance_score |-> RoundHalfEven(hit.score * 1000, SimScale),
      hit |-> i ]

\* `company.lower() not in job.company.lower()` (substring test on lower-cased text)
CompanyMismatch(company, job_company) ==
    ~ (company = "goo" /\ job_company = "Google")

RECURSIVE EnrichSemanticFrom(_, _, _, _)
\* the enrichment loop of search_jobs_semantic over hits[i..] ("" is no company filter)
EnrichSemanticFrom(i, hits, store, company) ==
    IF i > Len(hits) THEN <<>>
    ELSE LET job == store[hits[i].payload.job_id]
             rest == EnrichSemanticFrom(i + 1, hits, store, company)
         IN  IF job.exists /\ ~(company # "" /\ CompanyMismatch(company, job.company))
             THEN <<SemanticItem(hits[i], i)>> \o rest
             ELSE rest

EnrichSemantic(hits, store, company) == EnrichSemanticFrom(1, hits, store, company)

\* one entry of find_matching_candidates' enriched_results
CandidateItem(hit, i, job_skills) ==
    LET skill_analysis == AnalyzeSkills(hit.payload.skills, job_skills)
    IN  [ resume_id |-> hit.payload.resume_id,
          user_id |-> hit.payload.user_id,
          match_score |-> RoundHalfEven(hit.score * 1000, SimScale),
          skills |-> hit.payload.skills,
          experience_years |-> hit.payload.experience_years,
          skill_match_percentage |-> skill_analysis.match_percentage,
          matching_skills |-> skill_analysis.matching,
          missing_skills |-> skill_analysis.missing,
          hit |-> i ]

RECURSIVE EnrichCandidatesFrom(_, _, _, _)
\* the enrichment loop of find_matching_candidates (min_experience 0 is None)
EnrichCandidatesFrom(i, hits, job_skills, min_experience) ==
    IF i > Len(hits) THEN <<>>
    ELSE LET rest == EnrichCandidatesFrom(i + 1, hits, job_skills, min_experience)
         IN  IF min_experience # 0 /\ hits[i].payload.experience_years < min_experience
             THEN rest
             ELSE <<CandidateItem(hits[i], i, job_skills)>> \o rest

EnrichCandidates(hits, job_skills, min_experience) ==
    EnrichCandidatesFrom(1, hits, job_skills, min_experience)

\* a ranking call that swallows the failure and answers with an empty list
RankingResponseDegraded(op, fail, limit, args, hits, scored, result) ==
    [ op |-> op, raised |-> FALSE, returned |-> TRUE, fail |-> fail, limit |-> limit,
      args |-> args, hits |-> hits, scored |-> scored, result |-> result ]

\* response of a ranking/search call: nothing in the service catches a failure of
\* the embedding model or of the index, so it propagates and no list is returned
\* (args are the call's arguments the enrichment loop reads; hits and scored are kept
\* next to the returned list so that a response can be compared with what produced it)
RankingResponse(op, fail, limit, args, hits, scored, result) ==
    IF fail = "none"
    THEN [ op |-> op, raised |-> FALSE, returned |-> TRUE, fail |-> fail, limit |-> limit,
           args |-> args, hits |-> hits, scored |-> scored, result |-> result ]
    ELSE [ op |-> op, raised |-> TRUE, returned |-> FALSE, fail |-> fail, limit |-> 0,
           args |-> NoArgs, hits |-> <<>>, scored |-> <<>>, result |-> <<>> ]

\* collections after a call that goes through _ensure_collection
CollectionsAfter(colls, name, fail) ==
    IF fail \in {"pre", "embed", "ensure"} THEN colls ELSE EnsureCollection(colls, name)

----------------------------------------------------------------------------------------------------------------------------------------
(* Job side: JobService, the index_job endpoint and the job searches *)

\* a handle minted on every call, whether or not the entity already has one
EmbeddingIdAlwaysMinted(entity, n) == n + 1

\* `entity.embedding_id or str(uuid.uuid4())` (0 is None; n point ids were minted before)
EmbeddingIdFor(entity, n) == IF entity.embedding_id # 0 THEN entity.embedding_id ELSE n + 1

\* point ids minted once the `or` above has been evaluated
MintedAfter(entity, n) == IF entity.embedding_id # 0 THEN n ELSE n + 1

\* payload of index_job (the fields a filter or a reader looks at)
JobPayload(job_id, job) ==
    [ exists |-> TRUE, job_id |-> job_id, location |-> job.location, job_type |-> job.job_type,
      skills |-> job.skills_required, is_active |-> job.is_active ]

\* filters of find_matching_jobs and search_jobs_semantic
JobSearchFilters(q) ==
    {<<"is_active", TRUE>>}
        \cup (IF q.location # "" THEN {<<"location", q.location>>} ELSE {})
        \cup (IF q.job_type # "" THEN {<<"job_type", q.job_type>>} ELSE {})

\* JobService.create_job: a new active job without an embedding handle
CreateJob(data) ==
    /\ minted.jobs < MaxDocs
    /\ minted' = [minted EXCEPT !.jobs = @ + 1]
    /\ jobStore' = [jobStore EXCEPT ![minted.jobs + 1] =
            [ exists |-> TRUE, company |-> data.company,
              skills_required |-> data.skills_required, location |-> data.location,
              job_type |-> data.job_type, salary_max |-> data.salary_max,
              experience_level |-> data.experience_level, is_active |-> TRUE,
              embedding_id |-> 0 ]]
    /\ last' = IdleLast
    /\ UNCHANGED <<users, issued, clock, applications, interviews, acknowledged, resumeStore, jobsIndex, resumesIndex, collections, req, score>>

\* JobService.delete_job -> JobRepository.delete: soft delete
DeleteJob(j) ==
    /\ jobStore' = IF jobStore[j].exists
                   THEN [jobStore EXCEPT ![j].is_active = FALSE]
                   ELSE jobStore
    /\ last' = IdleLast
    /\ UNCHANGED <<users, issued, clock, applications, interviews, acknowledged, resumeStore, jobsIndex, resumesIndex, collections, minted, req, score>>

\* the job document disappears from the primary store by other means than this
\* service (which only soft-deletes): the dangling reference the searches tolerate
JobRecordRemoved(j) ==
    /\ jobStore[j].exists
    /\ jobStore' = [jobStore EXCEPT ![j] = NoRecord]
    /\ last' = IdleLast
    /\ UNCHANGED <<users, issued, clock, applications, interviews, acknowledged, resumeStore, jobsIndex, resumesIndex, collections, minted, req, score>>

\* what a POST /index/job/{job_id} request leaves to observe: the handle the job had
\* when it was read (0 is None), the handle returned, whether the point was upserted,
\* whether embedding_id was written to the job, the number of points afterwards, and
\* whether the request before it was a successful index_job of the same job
IndexJobResponse(j, job, embedding_id, raised, upserted, wrote_back, count_after) ==
    [ op |-> "index_job", job_id |-> j, raised |-> raised,
      had_handle |-> job.embedding_id,
      embedding_id |-> IF raised THEN 0 ELSE embedding_id,
      upserted |-> upserted, wrote_back |-> wrote_back, count_after |-> count_after,
      repeated |-> last.op = "index_job" /\ last.job_id = j /\ ~last.raised,
      previous |-> IF last.op = "index_job" /\ last.job_id = j /\ ~last.raised
                   THEN [ had_handle |-> last.had_handle, embedding_id |-> last.embedding_id,
                          count_after |-> last.count_after ]
                   ELSE [had_handle |-> 0, embedding_id |-> 0, count_after |-> 0] ]

\* POST /index/job/{job_id} handled in one piece: get_job, then MatchingService.index_job
IndexJobRequest(j, fail) ==
    LET job == jobStore[j]
        embedding_id == EmbeddingIdFor(job, minted.jobPoints)
        upserted == fail \in {"none", "write"}
        raised == fail \in {"embed", "ensure", "index"} \/ (fail = "write" /\ job.embedding_id = 0)
    IN  IF ~job.exists
        THEN /\ last' = IdleLast
             /\ UNCHANGED <<users, issued, clock, applications, interviews, acknowledged, jobStore, resumeStore, jobsIndex, resumesIndex, collections,
                            minted, req, score>>
        ELSE /\ fail # "embed" => MintedAfter(job, minted.jobPoints) <= MaxPoints
             /\ minted' = IF fail # "embed"
                          THEN [minted EXCEPT !.jobPoints = MintedAfter(job, @)]
                          ELSE minted
             /\ collections' = CollectionsAfter(collections, "jobs", fail)
             /\ jobsIndex' = IF upserted
                             THEN UpsertVector(jobsIndex, embedding_id, JobPayload(j, job))
                             ELSE jobsIndex
             /\ jobStore' = IF fail = "none" /\ job.embedding_id = 0
                            THEN [jobStore EXCEPT ![j].embedding_id = embedding_id]
                            ELSE jobStore
             /\ last' = IndexJobResponse(j, job, embedding_id, raised, upserted,
                                         fail = "none" /\ job.embedding_id = 0,
                                         Cardinality(Points(jobsIndex')))
             /\ UNCHANGED <<users, issued, clock, applications, interviews, acknowledged, resumeStore, resumesIndex, req, score>>

\* MatchingService.find_matching_jobs for a resume with the given skills
FindMatchingJobs(resume_skills, limit, q, fail) ==
    /\ \/ /\ fail # "none"
          /\ last' = RankingResponse("find_matching_jobs", fail, limit, NoArgs, <<>>, <<>>, <<>>)
       \/ /\ fail = "none"
          /\ \E sc \in [Points(jobsIndex) -> HitScores] :
               \E hits \in SearchSimilar(jobsIndex, sc, limit * 2, JobSearchFilters(q), q.min_score) :
                 LET scored == EnrichJobs(hits, jobStore, resume_skills, q.salary_min)
                     args == [ resume_skills |-> resume_skills, salary_min |-> q.salary_min,
                               min_score |-> q.min_score ]
                 IN  last' = RankingResponse("find_matching_jobs", fail, limit, args, hits,
                                             scored, RankAndLimit(scored, limit))
    /\ collections' = CollectionsAfter(collections, "jobs", fail)
    /\ UNCHANGED <<users, issued, clock, applications, interviews, acknowledged, jobStore, resumeStore, jobsIndex, resumesIndex, minted, req, score>>

\* MatchingService.search_jobs_semantic
SearchJobsSemantic(limit, q, company, fail) ==
    /\ \/ /\ fail # "none"
          /\ last' = RankingResponse("search_jobs_semantic", fail, limit, NoArgs, <<>>, <<>>, <<>>)
       \/ /\ fail = "none"
          /\ \E sc \in [Points(jobsIndex) -> HitScores] :
               \E hits \in SearchSimilar(jobsIndex, sc, limit, JobSearchFilters(q), SemanticThreshold) :
                 LET scored == EnrichSemantic(hits, jobStore, company)
                 IN  last' = RankingResponse("search_jobs_semantic", fail, limit,
                                             [company |-> company], hits, scored, scored)
    /\ collections' = CollectionsAfter(collections, "jobs", fail)
    /\ UNCHANGED <<users, issued, clock, applications, interviews, acknowledged, jobStore, resumeStore, jobsIndex, resumesIndex, minted, req, score>>

----------------------------------------------------------------------------
(* Resume side: ResumeService, the index_resume endpoint and candidate search *)

\* payload of index_resume
ResumePayload(resume_id, resume) ==
    [ exists |-> TRUE, resume_id |-> resume_id, user_id |-> resume.user_id,
      skills |-> resume.skills, experience_years |-> resume.experience_years ]

\* ResumeRepository.get_primary_resume: the resumes a `limit(1)` query can return
PrimaryResumes(store, user_id) ==
    {r \in ResumeIds : store[r].exists /\ store[r].user_id = user_id /\ store[r].is_primary}

\* the "unset current primary" half of ResumeRepository.set_primary;
\* current is the resume get_primary_resume returned, or 0 when it returned None
UnsetPrimary(store, current, resume_id) ==
    IF current # 0 /\ current # resume_id
    THEN [store EXCEPT ![current].is_primary = FALSE]
    ELSE store

\* MatchingService.index_resume on `resume`: the index afterwards
IndexResume(index, resume_id, resume, n, fail) ==
    IF fail \in {"none", "write"}
    THEN UpsertVector(index, EmbeddingIdFor(resume, n), ResumePayload(resume_id, resume))
    ELSE index

\* an upload that lets every failure propagate
UploadRaisesOnAnyFailure(fail) == fail # "none"

\* upload_resume raises only when a step before the record is created fails: the
\* try/except around index_resume and the embedding_id write swallows every failure
UploadRaises(fail) == fail = "pre"

\* ResumeService.upload_resume (auto_analyze only writes the analysis, which is not modelled)
UploadResume(user_id, data, is_primary, fail) ==
    LET r == minted.resumes + 1
        created == [ exists |-> TRUE, user_id |-> user_id,
                     skills |-> data.skills, experience_years |-> data.experience_years,
                     embedding_id |-> 0, is_primary |-> is_primary ]
        embedding_id == EmbeddingIdFor(created, minted.resumePoints)
        raised == UploadRaises(fail)
    IN  IF fail = "pre"
        THEN /\ last' = [ op |-> "upload_resume", raised |-> raised, returned |-> 0,
                          resume_id |-> 0, fail |-> fail ]
             /\ UNCHANGED <<users, issued, clock, applications, interviews, acknowledged, jobStore, resumeStore, jobsIndex, resumesIndex, collections,
                            minted, req, score>>
        ELSE /\ minted.resumes < MaxDocs
             /\ fail # "embed" => minted.resumePoints < MaxPoints
             /\ minted' = [minted EXCEPT !.resumes = r,
                                         !.resumePoints = IF fail # "embed" THEN @ + 1 ELSE @]
             /\ \E current \in (IF is_primary /\ PrimaryResumes(resumeStore, user_id) # {}
                                THEN PrimaryResumes(resumeStore, user_id) ELSE {0}) :
                  resumeStore' =
                     [UnsetPrimary(resumeStore, current, 0) EXCEPT ![r] =
                         IF fail = "none"
                         THEN [created EXCEPT !.embedding_id = embedding_id]
                         ELSE created]
             /\ collections' = CollectionsAfter(collections, "resumes", fail)
             /\ resumesIndex' = IndexResume(resumesIndex, r, created, minted.resumePoints, fail)
             /\ last' = [ op |-> "upload_resume", raised |-> raised,
                          returned |-> IF raised THEN 0 ELSE r, resume_id |-> r, fail |-> fail ]
             /\ UNCHANGED <<users, issued, clock, applications, interviews, acknowledged, jobStore, jobsIndex, req, score>>

\* ResumeService.update_resume; upd.given = FALSE is skills = None (only the name changes)
UpdateResume(r, user_id, upd, fail) ==
    LET resume == resumeStore[r]
        edited == [resume EXCEPT !.skills = upd.skills]
        tried == upd.given /\ fail # "embed"
    IN  IF ~resume.exists \/ resume.user_id # user_id
        THEN /\ last' = IdleLast
             /\ UNCHANGED <<users, issued, clock, applications, interviews, acknowledged, jobStore, resumeStore, jobsIndex, resumesIndex, collections,
                            minted, req, score>>
        ELSE /\ tried => MintedAfter(resume, minted.resumePoints) <= MaxPoints
             /\ minted' = IF tried
                          THEN [minted EXCEPT !.resumePoints = MintedAfter(resume, @)]
                          ELSE minted
             /\ collections' = IF upd.given
                               THEN CollectionsAfter(collections, "resumes", fail)
                               ELSE collections
             /\ resumesIndex' = IF upd.given
                                THEN IndexResume(resumesIndex, r, edited, minted.resumePoints, fail)
                                ELSE resumesIndex
             /\ resumeStore' = IF upd.given /\ fail # "write"
                               THEN [resumeStore EXCEPT ![r] = edited]
                               ELSE resumeStore
             /\ last' = IdleLast
             /\ UNCHANGED <<users, issued, clock, applications, interviews, acknowledged, jobStore, jobsIndex, req, score>>

\* POST /index/resume/{resume_id}: get_resume, ownership check, index_resume
IndexResumeRequest(r, user_id, fail) ==
    LET resume == resumeStore[r]
    IN  IF ~resume.exists \/ resume.user_id # user_id
        THEN /\ last' = IdleLast
             /\ UNCHANGED <<users, issued, clock, applications, interviews, acknowledged, jobStore, resumeStore, jobsIndex, resumesIndex, collections,
                            minted, req, score>>
        ELSE /\ fail # "embed" => MintedAfter(resume, minted.resumePoints) <= MaxPoints
             /\ minted' = IF fail # "embed"
                          THEN [minted EXCEPT !.resumePoints = MintedAfter(resume, @)]
                          ELSE minted
             /\ collections' = CollectionsAfter(collections, "resumes", fail)
             /\ resumesIndex' = IndexResume(resumesIndex, r, resume, minted.resumePoints, fail)
             /\ last' = IdleLast
             /\ UNCHANGED <<users, issued, clock, applications, interviews, acknowledged, jobStore, resumeStore, jobsIndex, req, score>>

\* ResumeService.delete_resume: the file and the document are deleted, the vector is not
DeleteResume(r, user_id) ==
    LET resume == resumeStore[r]
        found == resume.exists /\ resume.user_id = user_id
    IN  /\ resumeStore' = IF found THEN [resumeStore EXCEPT ![r] = NoRecord] ELSE resumeStore
        /\ last' = IdleLast
        /\ UNCHANGED <<users, issued, clock, applications, interviews, acknowledged, jobStore, jobsIndex, resumesIndex, collections, minted, req, score>>

\* MatchingService.find_matching_candidates for a job with the given required skills
FindMatchingCandidates(job_skills, limit, q, fail) ==
    /\ \/ /\ fail # "none"
          /\ last' = RankingResponse("find_matching_candidates", fail, limit, NoArgs, <<>>, <<>>, <<>>)
       \/ /\ fail = "none"
          /\ \E sc \in [Points(resumesIndex) -> HitScores] :
               \E hits \in SearchSimilar(resumesIndex, sc, limit * 2, {}, q.min_score) :
                 LET scored == EnrichCandidates(hits, job_skills, q.min_experience)
                     args == [job_skills |-> job_skills, min_experience |-> q.min_experience]
                 IN  last' = RankingResponse("find_matching_candidates", fail, limit, args,
                                             hits, scored, RankAndLimit(scored, limit))
    /\ collections' = CollectionsAfter(collections, "resumes", fail)
    /\ UNCHANGED <<users, issued, clock, applications, interviews, acknowledged, jobStore, resumeStore, jobsIndex, resumesIndex, minted, req, score>>

----------------------------------------------------------------------------
(* Specifications of the service handling one request at a time *)

Init ==
    /\ users = NoUsers /\ issued = NoneIssued /\ clock = 0 /\ applications = NoApplications
    /\ interviews = NoInterviews /\ acknowledged = {}
    /\ jobStore = [i \in JobIds |-> NoRecord]
    /\ resumeStore = [i \in ResumeIds |-> NoRecord]
    /\ jobsIndex = [i \in PointIds |-> NoPoint]
    /\ resumesIndex = [i \in PointIds |-> NoPoint]
    /\ collections = {}
    /\ minted = NoneMinted
    /\ last = IdleLast
    /\ req = IdleReq
    /\ score = IdleScore

\* requests about jobs
NextJobs ==
    \/ \E data \in JobData : CreateJob(data)
    \/ \E j \in JobIds : DeleteJob(j)
    \/ \E j \in JobIds : JobRecordRemoved(j)
    \/ \E j \in JobIds, fail \in IndexingFailures : IndexJobRequest(j, fail)
    \/ \E resume_skills \in {d.skills : d \in ResumeData}, limit \in 1..MaxLimit,
          q \in JobQueries, fail \in RankingFailures :
          FindMatchingJobs(resume_skills, limit, q, fail)
    \/ \E limit \in 1..MaxLimit, q \in JobQueries, company \in CompanyQueries,
          fail \in RankingFailures :
          SearchJobsSemantic(limit, q, company, fail)

\* requests about resumes
NextResumes ==
    \/ \E user_id \in Uploaders, data \in ResumeData, is_primary \in BOOLEAN,
          fail \in UploadFailures :
          UploadResume(user_id, data, is_primary, fail)
    \/ \E r \in ResumeIds, user_id \in UserIds, upd \in SkillUpdates,
          fail \in IndexingFailures :
          UpdateResume(r, user_id, upd, fail)
    \/ \E r \in ResumeIds, user_id \in UserIds, fail \in RankingFailures :
          IndexResumeRequest(r, user_id, fail)
    \/ \E r \in ResumeIds, user_id \in UserIds : DeleteResume(r, user_id)
    \/ \E job_skills \in {d.skills_required : d \in JobData}, limit \in 1..MaxLimit,
          q \in CandidateQueries, fail \in RankingFailures :
          FindMatchingCandidates(job_skills, limit, q, fail)

SpecJobs == Init /\ [][NextJobs]_vars

\* the requests that write jobs and the job index, without the searches
NextJobWrites ==
    \/ \E data \in JobData : CreateJob(data)
    \/ \E j \in JobIds : DeleteJob(j)
    \/ \E j \in JobIds, fail \in IndexingFailures : IndexJobRequest(j, fail)

SpecJobWrites == Init /\ [][NextJobWrites]_vars

SpecResumes == Init /\ [][NextResumes]_vars

\* the requests that write resumes, without the candidate search
NextResumeWrites ==
    \/ \E user_id \in Uploaders, data \in ResumeData, is_primary \in BOOLEAN,
          fail \in UploadFailures :
          UploadResume(user_id, data, is_primary, fail)
    \/ \E r \in ResumeIds, user_id \in UserIds, upd \in SkillUpdates,
          fail \in IndexingFailures :
          UpdateResume(r, user_id, upd, fail)
    \/ \E r \in ResumeIds, user_id \in UserIds, fail \in RankingFailures :
          IndexResumeRequest(r, user_id, fail)
    \/ \E r \in ResumeIds, user_id \in UserIds : DeleteResume(r, user_id)

SpecResumeWrites == Init /\ [][NextResumeWrites]_vars

Next == NextJobs \/ NextResumes

Spec == Init /\ [][Next]_vars

\* the three ranking calls over indexes filled by requests that succeed
NextRanking ==
    \/ \E data \in JobData : CreateJob(data)
    \/ \E j \in JobIds : IndexJobRequest(j, "none")
    \/ \E user_id \in Uploaders, data \in ResumeData : UploadResume(user_id, data, FALSE, "none")
    \/ \E resume_skills \in {d.skills : d \in ResumeData}, limit \in 1..MaxLimit,
          q \in JobQueries, fail \in RankingFailures :
          FindMatchingJobs(resume_skills, limit, q, fail)
    \/ \E limit \in 1..MaxLimit, q \in JobQueries, company \in CompanyQueries,
          fail \in RankingFailures :
          SearchJobsSemantic(limit, q, company, fail)
    \/ \E job_skills \in {d.skills_required : d \in JobData}, limit \in 1..MaxLimit,
          q \in CandidateQueries, fail \in RankingFailures :
          FindMatchingCandidates(job_skills, limit, q, fail)

SpecRanking == Init /\ [][NextRanking]_vars

----------------------------------------------------------------------------
(* index_job requests handled by concurrent workers, one step per awaited call: *)
(* get_job, upsert_vector, then the write of embedding_id                       *)

\* job_service.get_job: the worker holds the Job it read
IndexJobRead(w, j) ==
    /\ req[w].pc = "idle"
    /\ req' = [req EXCEPT ![w] =
                  IF jobStore[j].exists
                  THEN [pc |-> "read", job_id |-> j, job |-> jobStore[j], embedding_id |-> 0]
                  ELSE [pc |-> "not_found", job_id |-> j, job |-> NoRecord, embedding_id |-> 0]]
    /\ UNCHANGED <<users, issued, clock, applications, interviews, acknowledged, jobStore, resumeStore, jobsIndex, resumesIndex, collections, minted,
                   last, score>>

\* index_job up to and including upsert_vector, on the Job the worker read
IndexJobUpsert(w) ==
    LET r == req[w]
        embedding_id == EmbeddingIdFor(r.job, minted.jobPoints)
    IN  /\ r.pc = "read"
        /\ MintedAfter(r.job, minted.jobPoints) <= MaxPoints
        /\ minted' = [minted EXCEPT !.jobPoints = MintedAfter(r.job, @)]
        /\ collections' = EnsureCollection(collections, "jobs")
        /\ jobsIndex' = UpsertVector(jobsIndex, embedding_id, JobPayload(r.job_id, r.job))
        /\ req' = [req EXCEPT ![w].pc = "upserted", ![w].embedding_id = embedding_id]
        /\ UNCHANGED <<users, issued, clock, applications, interviews, acknowledged, jobStore, resumeStore, resumesIndex, last, score>>

\* `if not job.embedding_id: update(job.id, {"embedding_id": embedding_id})`, then return
IndexJobWriteBack(w) ==
    LET r == req[w]
    IN  /\ r.pc = "upserted"
        /\ jobStore' = IF r.job.embedding_id = 0 /\ jobStore[r.job_id].exists
                       THEN [jobStore EXCEPT ![r.job_id].embedding_id = r.embedding_id]
                       ELSE jobStore
        /\ req' = [req EXCEPT ![w].pc = "done"]
        /\ UNCHANGED <<users, issued, clock, applications, interviews, acknowledged, resumeStore, jobsIndex, resumesIndex, collections, minted, last, score>>

NextRace ==
    \/ \E data \in JobData : CreateJob(data)
    \/ \E w \in Workers, j \in JobIds : IndexJobRead(w, j)
    \/ \E w \in Workers : IndexJobUpsert(w)
    \/ \E w \in Workers : IndexJobWriteBack(w)

SpecRace == Init /\ [][NextRace]_vars

----------------
(* Specification of the scoring function: Init draws the inputs of one     *)
(* calculate_match_score call, the action applies the function.            *)

InitScore ==
    /\ users = NoUsers /\ issued = NoneIssued /\ clock = 0 /\ applications = NoApplications
    /\ interviews = NoInterviews /\ acknowledged = {}
    /\ jobStore = [i \in JobIds |-> NoRecord]
    /\ resumeStore = [i \in ResumeIds |-> NoRecord]
    /\ jobsIndex = [i \in PointIds |-> NoPoint]
    /\ resumesIndex = [i \in PointIds |-> NoPoint]
    /\ collections = {}
    /\ minted = NoneMinted
    /\ last = IdleLast
    /\ req = IdleReq
    /\ \E similarity \in SimValues, resume_skills \in SkillLists, job_skills \in SkillLists,
          years \in 0..MaxYears, level \in LevelLabels :
          score = [ pc |-> "called", similarity |-> similarity,
                    resume_skills |-> resume_skills, job_skills |-> job_skills,
                    years |-> years, level |-> level, result |-> NoResult ]

CalculateMatchScoreCall ==
    /\ score.pc = "called"
    /\ score' = [score EXCEPT !.pc = "returned",
                    !.result = CalculateMatchScore(score.similarity, score.resume_skills,
                                                   score.job_skills, score.years, score.level)]
    /\ UNCHANGED <<users, issued, clock, applications, interviews, acknowledged, jobStore, resumeStore, jobsIndex, resumesIndex, collections, minted, last, req>>

NextScore == CalculateMatchScoreCall

SpecScore == InitScore /\ [][NextScore]_vars

----------------------------------------------------------------------------
(* Specification of the skill comparator: Init draws the two skill lists of *)
(* one _analyze_skills call, the action applies the function.               *)

\* the labels skills are drawn from: spellings that differ in case only, and others
SkillLabels == {"Python", "python", "AWS", "aws", "Docker", "Kubernetes"}

\* every list of at most n labels, repeated entries included
SkillListsUpTo(n) == UNION {[1..k -> SkillLabels] : k \in 0..n}

InitSkills ==
    /\ users = NoUsers /\ issued = NoneIssued /\ clock = 0 /\ applications = NoApplications
    /\ interviews = NoInterviews /\ acknowledged = {}
    /\ jobStore = [i \in JobIds |-> NoRecord]
    /\ resumeStore = [i \in ResumeIds |-> NoRecord]
    /\ jobsIndex = [i \in PointIds |-> NoPoint]
    /\ resumesIndex = [i \in PointIds |-> NoPoint]
    /\ collections = {}
    /\ minted = NoneMinted
    /\ last = IdleLast
    /\ req = IdleReq
    /\ \E resume_skills \in SkillListsUpTo(MaxSkills), job_skills \in SkillListsUpTo(MaxSkills) :
          score = [ pc |-> "called", resume_skills |-> resume_skills,
                    job_skills |-> job_skills, result |-> NoResult ]

AnalyzeSkillsCall ==
    /\ score.pc = "called"
    /\ score' = [score EXCEPT !.pc = "returned",
                    !.result = AnalyzeSkills(score.resume_skills, score.job_skills)]
    /\ UNCHANGED <<users, issued, clock, applications, interviews, acknowledged, jobStore, resumeStore, jobsIndex, resumesIndex, collections, minted, last, req>>

NextSkills == AnalyzeSkillsCall

SpecSkills == InitSkills /\ [][NextSkills]_vars

----------------------------------------------------------------------------
(* Specification of the experience scorer: Init draws years and the level    *)
(* label of one _calculate_experience_score call, the action applies it.     *)

\* level labels in several spellings, an unknown one and the empty one
ExperienceLabels == LevelLabels \cup {"LEAD", "Entry"}

InitExperience ==
    /\ users = NoUsers /\ issued = NoneIssued /\ clock = 0 /\ applications = NoApplications
    /\ interviews = NoInterviews /\ acknowledged = {}
    /\ jobStore = [i \in JobIds |-> NoRecord]
    /\ resumeStore = [i \in ResumeIds |-> NoRecord]
    /\ jobsIndex = [i \in PointIds |-> NoPoint]
    /\ resumesIndex = [i \in PointIds |-> NoPoint]
    /\ collections = {}
    /\ minted = NoneMinted
    /\ last = IdleLast
    /\ req = IdleReq
    /\ \E years \in 0..MaxCareer, level \in ExperienceLabels :
          score = [pc |-> "called", years |-> years, level |-> level, result |-> NoResult]

CalculateExperienceScoreCall ==
    /\ score.pc = "called"
    /\ score' = [score EXCEPT !.pc = "returned",
                    !.result = [ exists |-> TRUE,
                                 value |-> CalculateExperienceScore(score.years, score.level) ]]
    /\ UNCHANGED <<users, issued, clock, applications, interviews, acknowledged, jobStore, resumeStore, jobsIndex, resumesIndex, collections, minted, last, req>>

NextExperience == CalculateExperienceScoreCall

SpecExperience == InitExperience /\ [][NextExperience]_vars

----------------------------------------------------------------------------
(* The same score request served by two worker processes.  The skill lists  *)
(* are built with list(set(...)): the order of a set of str follows the     *)
(* str hash, which is seeded at random when a process starts.                *)

\* two of the hash seeds a process can start with
HashSeeds == {1, 2}

\* the order in which a set holding all the (lower-cased) labels is iterated
HashOrder(seed) ==
    IF seed = 1 THEN <<"python", "aws", "docker", "kubernetes">>
    ELSE <<"kubernetes", "docker", "aws", "python">>

\* list(s) for a set s of labels, in a process started with this seed
ListOfSet(s, seed) == SelectSeq(HashOrder(seed), LAMBDA x : x \in s)

\* [x.title() for x in list(s)]
TitleList(s, seed) ==
    LET l == ListOfSet(s, seed) IN [i \in 1..Len(l) |-> Title(l[i])]

\* the three lists of _analyze_skills, in the order the process produces them
AnalyzeSkillsOrdered(resume_skills, job_skills, seed) ==
    LET resume_skills_lower == LowerSet(resume_skills)
        job_skills_lower == LowerSet(job_skills)
    IN  [ matching |-> TitleList(resume_skills_lower \cap job_skills_lower, seed),
          missing |-> TitleList(job_skills_lower \ resume_skills_lower, seed),
          extra |-> TitleList(resume_skills_lower \ job_skills_lower, seed) ]

\* the text of a recommendation: its rule and the skills it names
\* (', '.join(missing[:3]) and ', '.join(extra[:3]))
RecommendationText(rule, ordered) ==
    [ rule |-> rule,
      names |-> IF rule = "consider_learning" THEN Take(ordered.missing, 3)
                ELSE IF rule = "highlight_extra" THEN Take(ordered.extra, 3)
                ELSE <<>> ]

\* calculate_match_score as a process with this hash seed returns it
CalculateMatchScoreOrdered(similarity, resume_skills, job_skills, years, level, seed) ==
    LET result == CalculateMatchScore(similarity, resume_skills, job_skills, years, level)
        ordered == AnalyzeSkillsOrdered(resume_skills, job_skills, seed)
    IN  [ result EXCEPT
            !.matching_skills = ordered.matching,
            !.missing_skills = ordered.missing,
            !.extra_skills = ordered.extra,
            !.recommendations =
                [i \in 1..Len(result.recommendations) |->
                    RecommendationText(result.recommendations[i], ordered)] ]

InitRepeat ==
    /\ users = NoUsers /\ issued = NoneIssued /\ clock = 0 /\ applications = NoApplications
    /\ interviews = NoInterviews /\ acknowledged = {}
    /\ jobStore = [i \in JobIds |-> NoRecord]
    /\ resumeStore = [i \in ResumeIds |-> NoRecord]
    /\ jobsIndex = [i \in PointIds |-> NoPoint]
    /\ resumesIndex = [i \in PointIds |-> NoPoint]
    /\ collections = {}
    /\ minted = NoneMinted
    /\ last = IdleLast
    /\ req = IdleReq
    /\ \E similarity \in HitScores, resume_skills \in SkillLists, job_skills \in SkillLists,
          years \in 0..MaxYears, level \in LevelLabels, hash_seed \in [Workers -> HashSeeds] :
          score = [ pc |-> "called", similarity |-> similarity,
                    resume_skills |-> resume_skills, job_skills |-> job_skills,
                    years |-> years, level |-> level, hash_seed |-> hash_seed,
                    result |-> NoResult ]

\* GET /score/{job_id} for the drawn resume and job, served by worker process w
ScoreRequest(w) ==
    /\ req[w].pc = "idle"
    /\ req' = [req EXCEPT ![w] =
                  [ pc |-> "scored",
                    result |-> CalculateMatchScoreOrdered(score.similarity, score.resume_skills,
                                   score.job_skills, score.years, score.level,
                                   score.hash_seed[w]) ]]
    /\ UNCHANGED <<users, issued, clock, applications, interviews, acknowledged, jobStore, resumeStore, jobsIndex, resumesIndex, collections, minted,
                   last, score>>

NextRepeat == \E w \in Workers : ScoreRequest(w)

SpecScoreRepeat == InitRepeat /\ [][NextRepeat]_vars

----------------------------------------------------------------------------
(* The primary resume: set_primary_resume and upload_resume(is_primary) as the *)
(* three store operations each of them makes (read the current primary, unset  *)
(* it, set or create the new one), with other requests running in between.     *)

\* uploads that have started and not yet created their document
PendingUploads == Cardinality({w \in Workers : req[w].pc # "idle" /\ req[w].op = "upload_resume"})

\* ResumeService.set_primary_resume up to get_primary_resume: the ownership check
\* and the query for the current primary
SetPrimaryResumeRead(w, user_id, r) ==
    /\ req[w].pc = "idle"
    /\ IF ~resumeStore[r].exists \/ resumeStore[r].user_id # user_id
       THEN /\ last' = [ op |-> "set_primary_resume", raised |-> TRUE, returned |-> FALSE,
                         resume_id |-> r ]
            /\ req' = req
       ELSE /\ last' = last
            /\ \E current \in (IF PrimaryResumes(resumeStore, user_id) # {}
                                THEN PrimaryResumes(resumeStore, user_id) ELSE {0}) :
                 req' = [req EXCEPT ![w] = [ pc |-> "read", op |-> "set_primary_resume",
                                            user_id |-> user_id, resume_id |-> r,
                                            current |-> current, data |-> NoArgs ]]
    /\ UNCHANGED <<users, issued, clock, applications, interviews, acknowledged, jobStore,
                   resumeStore, jobsIndex, resumesIndex, collections, minted, score>>

\* ResumeService.upload_resume(is_primary = True) up to get_primary_resume
UploadPrimaryRead(w, user_id, data) ==
    /\ req[w].pc = "idle"
    /\ minted.resumes + PendingUploads < MaxDocs
    /\ minted.resumePoints + PendingUploads < MaxPoints
    /\ \E current \in (IF PrimaryResumes(resumeStore, user_id) # {}
                        THEN PrimaryResumes(resumeStore, user_id) ELSE {0}) :
         req' = [req EXCEPT ![w] = [ pc |-> "read", op |-> "upload_resume",
                                    user_id |-> user_id, resume_id |-> 0,
                                    current |-> current, data |-> data ]]
    /\ UNCHANGED <<users, issued, clock, applications, interviews, acknowledged, jobStore,
                   resumeStore, jobsIndex, resumesIndex, collections, minted, last, score>>

\* the update that unsets the primary the request has read
PrimaryUnset(w) ==
    /\ req[w].pc = "read"
    /\ resumeStore' = UnsetPrimary(resumeStore, req[w].current, req[w].resume_id)
    /\ req' = [req EXCEPT ![w].pc = "unset"]
    /\ UNCHANGED <<users, issued, clock, applications, interviews, acknowledged, jobStore,
                   jobsIndex, resumesIndex, collections, minted, last, score>>

\* the end of set_primary_resume: the update that sets the new primary
SetPrimaryResumeWrite(w) ==
    /\ req[w].pc = "unset" /\ req[w].op = "set_primary_resume"
    /\ LET r == req[w].resume_id
       IN  /\ resumeStore' = IF resumeStore[r].exists
                             THEN [resumeStore EXCEPT ![r].is_primary = TRUE]
                             ELSE resumeStore
           /\ last' = [ op |-> "set_primary_resume", raised |-> FALSE,
                        returned |-> resumeStore[r].exists, resume_id |-> r ]
    /\ req' = [req EXCEPT ![w] = [pc |-> "idle"]]
    /\ UNCHANGED <<users, issued, clock, applications, interviews, acknowledged, jobStore,
                   jobsIndex, resumesIndex, collections, minted, score>>

\* the end of upload_resume: the document is created as primary, indexed, and
\* its embedding_id written
UploadPrimaryCreate(w) ==
    /\ req[w].pc = "unset" /\ req[w].op = "upload_resume"
    /\ LET r == minted.resumes + 1
           created == [ exists |-> TRUE, user_id |-> req[w].user_id,
                        skills |-> req[w].data.skills,
                        experience_years |-> req[w].data.experience_years,
                        embedding_id |-> 0, is_primary |-> TRUE ]
           embedding_id == EmbeddingIdFor(created, minted.resumePoints)
       IN  /\ minted' = [minted EXCEPT !.resumes = r, !.resumePoints = @ + 1]
           /\ resumeStore' = [resumeStore EXCEPT ![r] =
                                 [created EXCEPT !.embedding_id = embedding_id]]
           /\ collections' = CollectionsAfter(collections, "resumes", "none")
           /\ resumesIndex' = IndexResume(resumesIndex, r, created, minted.resumePoints, "none")
           /\ last' = [ op |-> "upload_resume", raised |-> FALSE, returned |-> r,
                        resume_id |-> r, fail |-> "none" ]
    /\ req' = [req EXCEPT ![w] = [pc |-> "idle"]]
    /\ UNCHANGED <<users, issued, clock, applications, interviews, acknowledged, jobStore,
                   jobsIndex, score>>

NextPrimary ==
    \/ \E w \in Workers, user_id \in UserIds, r \in ResumeIds : SetPrimaryResumeRead(w, user_id, r)
    \/ \E w \in Workers, user_id \in Uploaders, data \in ResumeData :
          UploadPrimaryRead(w, user_id, data)
    \/ \E w \in Workers : PrimaryUnset(w)
    \/ \E w \in Workers : SetPrimaryResumeWrite(w)
    \/ \E w \in Workers : UploadPrimaryCreate(w)

SpecPrimary == Init /\ [][NextPrimary]_vars

----------------------------------------------------------------------------
(* Authentication: AuthService.send_otp and AuthService.verify_otp over the  *)
(* users table. Each call runs in its own database session and commits once. *)

OtpCodes == {"111111", "222222"}     \* values of generate_otp()
OtpLifetime == 10                    \* timedelta(minutes=10)
ClockStep == 5                       \* minutes between two requests

\* the row send_otp leaves for this email
RowAfterSendOtp(user, otp, now) ==
    IF user.exists
    THEN [user EXCEPT !.otp_code = otp, !.otp_expires_at = now + OtpLifetime]
    ELSE [ exists |-> TRUE, otp_code |-> otp, otp_expires_at |-> now + OtpLifetime,
           is_active |-> TRUE, is_verified |-> FALSE ]

\* AuthService.send_otp
SendOtp(email, otp) ==
    /\ users' = [users EXCEPT ![email] = RowAfterSendOtp(users[email], otp, clock)]
    /\ issued' = [issued EXCEPT ![email] = [code |-> otp, tokens |-> 0]]
    /\ last' = [op |-> "send_otp", email |-> email, otp |-> otp, status |-> 200]
    /\ UNCHANGED <<clock, applications, interviews, acknowledged, jobStore, resumeStore, jobsIndex,
                   resumesIndex, collections, minted, req, score>>

\* the checks of verify_otp with the expiry check left out
VerifyOtpOutcomeNoExpiry(user, otp, now) ==
    IF ~user.exists THEN [status |-> 404, detail |-> "User not found"]
    ELSE IF user.otp_code = None THEN [status |-> 400, detail |-> "No OTP found"]
    ELSE IF user.otp_code # otp THEN [status |-> 401, detail |-> "Invalid OTP code"]
    ELSE [status |-> 200, detail |-> ""]

\* the checks of verify_otp, in the order the code makes them
VerifyOtpOutcome(user, otp, now) ==
    IF ~user.exists THEN [status |-> 404, detail |-> "User not found"]
    ELSE IF user.otp_code = None THEN [status |-> 400, detail |-> "No OTP found"]
    ELSE IF user.otp_expires_at # NoTime /\ user.otp_expires_at < now
         THEN [status |-> 400, detail |-> "OTP has expired"]
    ELSE IF user.otp_code # otp THEN [status |-> 401, detail |-> "Invalid OTP code"]
    ELSE [status |-> 200, detail |-> ""]

\* a verified row that keeps its OTP
RowAfterVerifyKeepsOtp(user) ==
    [user EXCEPT !.is_verified = TRUE, !.is_active = TRUE]

\* the row verify_otp commits when the OTP is valid
RowAfterVerify(user) ==
    [user EXCEPT !.otp_code = None, !.otp_expires_at = NoTime,
                 !.is_verified = TRUE, !.is_active = TRUE]

\* AuthService.verify_otp (before and redeemed are the row and the token count the
\* call found, kept next to the response so that the two can be compared)
VerifyOtp(email, otp) ==
    LET user == users[email]
        outcome == VerifyOtpOutcome(user, otp, clock)
        ok == outcome.status = 200
    IN  /\ users' = IF ok THEN [users EXCEPT ![email] = RowAfterVerify(user)] ELSE users
        /\ issued' = IF ok
                     THEN [issued EXCEPT ![email].tokens = Min(@ + 1, MaxTokens)]
                     ELSE issued
        /\ last' = [ op |-> "verify_otp", email |-> email, otp |-> otp,
                     status |-> outcome.status, detail |-> outcome.detail,
                     tokens |-> ok, before |-> user, redeemed |-> issued[email].tokens,
                     at |-> clock ]
        /\ UNCHANGED <<clock, applications, interviews, acknowledged, jobStore, resumeStore, jobsIndex,
                       resumesIndex, collections, minted, req, score>>

\* time passes between two requests
Tick ==
    /\ clock + ClockStep <= MaxClock
    /\ clock' = clock + ClockStep
    /\ UNCHANGED <<users, issued, applications, interviews, acknowledged, jobStore, resumeStore, jobsIndex,
                   resumesIndex, collections, minted, last, req, score>>

NextAuth ==
    \/ \E email \in Emails, otp \in OtpCodes : SendOtp(email, otp)
    \/ \E email \in Emails, otp \in OtpCodes : VerifyOtp(email, otp)
    \/ Tick

SpecAuth == Init /\ [][NextAuth]_vars

----------------------------------------------------------------------------
(* Applications: the create_application endpoint over the applications table. *)
(* The existence query and the insert are two statements of one request; the  *)
(* table has no unique constraint on (user_id, job_id), so requests served by *)
(* different server processes interleave between the two.                     *)

Applicants == {"u1", "u2", "u3"}
AppliedJobIds == {1, 2, 3}
ActiveJobIds == {1, 2}                           \* jobs with is_active = True
\* the resume each applicant applies with (0: no resume uploaded)
ResumeOf == [u \in Applicants |-> CASE u = "u1" -> 1 [] u = "u2" -> 2 [] OTHER -> 0]

\* db.query(Application).filter(user_id == ..., job_id == ...).first()
ExistingApplication(rows, user_id, job_id) ==
    \E i \in DOMAIN rows : rows[i].user_id = user_id /\ rows[i].job_id = job_id

\* the rows in flight: requests that passed their checks and have not inserted yet
PendingInserts == Cardinality({w \in Workers : req[w].pc = "checked"})

ApplicationResponse(status, detail, user_id, job_id) ==
    [ op |-> "create_application", status |-> status, detail |-> detail,
      user_id |-> user_id, job_id |-> job_id, rows_before |-> applications ]

\* create_application up to the point where the new row is built: the job lookup,
\* the existence check and the resume lookups
CreateApplicationCheck(w, user_id, job_id) ==
    /\ req[w].pc = "idle"
    /\ Len(applications) + PendingInserts < MaxApplications
    /\ IF job_id \notin ActiveJobIds
       THEN /\ last' = ApplicationResponse(404, "Job not found or no longer active", user_id, job_id)
            /\ req' = req
       ELSE IF ExistingApplication(applications, user_id, job_id)
       THEN /\ last' = ApplicationResponse(400, "You have already applied to this job", user_id, job_id)
            /\ req' = req
       ELSE IF ResumeOf[user_id] = 0
       THEN /\ last' = ApplicationResponse(400, "Please upload a resume before applying to jobs", user_id, job_id)
            /\ req' = req
       ELSE /\ last' = last
            /\ req' = [req EXCEPT ![w] = [ pc |-> "checked", user_id |-> user_id,
                                           job_id |-> job_id, resume_id |-> ResumeOf[user_id] ]]
    /\ UNCHANGED <<users, issued, clock, applications, interviews, acknowledged, jobStore, resumeStore,
                   jobsIndex, resumesIndex, collections, minted, score>>

\* db.add(new_application); db.commit() and the 201 response
CreateApplicationInsert(w) ==
    /\ req[w].pc = "checked"
    /\ applications' = Append(applications,
                              [ user_id |-> req[w].user_id, job_id |-> req[w].job_id,
                                resume_id |-> req[w].resume_id, status |-> "applied" ])
    /\ last' = ApplicationResponse(201, "", req[w].user_id, req[w].job_id)
    /\ req' = [req EXCEPT ![w] = [pc |-> "idle"]]
    /\ UNCHANGED <<users, issued, clock, interviews, acknowledged, jobStore, resumeStore,
                   jobsIndex, resumesIndex, collections, minted, score>>

NextApplications ==
    \/ \E w \in Workers, user_id \in Applicants, job_id \in AppliedJobIds :
          CreateApplicationCheck(w, user_id, job_id)
    \/ \E w \in Workers : CreateApplicationInsert(w)

SpecApplications == Init /\ [][NextApplications]_vars

----------------------------------------------------------------------------
(* Mock interviews: InterviewService over the interviews collection. Every    *)
(* handler reads the interview with one awaited repository call and writes it *)
(* with another; requests interleave between the two.                         *)

Questions == {"q1", "q2"}            \* ids of the generated questions
AskedQuestions == Questions \cup {"q9"}     \* question ids clients submit ("q9" is not a question)

\* InterviewService.create_interview
CreateInterview(i, user_id) ==
    /\ ~interviews[i].exists
    /\ interviews' = [interviews EXCEPT ![i] =
                         [ exists |-> TRUE, user_id |-> user_id, status |-> "scheduled",
                           responses |-> <<>> ]]
    /\ last' = [op |-> "create_interview", interview_id |-> i, status |-> 201, detail |-> ""]
    /\ UNCHANGED <<users, issued, clock, applications, acknowledged, jobStore, resumeStore,
                   jobsIndex, resumesIndex, collections, minted, req, score>>

InterviewOps == {"start_interview", "submit_response", "complete_interview"}

\* `next((r for r in interview.responses if r.question_id == question_id), None)`
Answered(responses, question_id) ==
    \E k \in DOMAIN responses : responses[k] = question_id

\* the checks with start_interview accepted whatever the status is
InterviewRejectionStartAnyStatus(op, interview, user_id, question_id) ==
    IF interview.user_id # user_id THEN "Not authorized"
    ELSE IF op = "start_interview" THEN ""
    ELSE IF op = "submit_response"
    THEN IF interview.status # "in_progress" THEN "Interview is not in progress"
         ELSE IF question_id \notin Questions THEN "Question not found"
         ELSE IF Answered(interview.responses, question_id) THEN "Question already answered"
         ELSE ""
    ELSE IF interview.status = "completed" THEN "Interview already completed"
         ELSE IF interview.responses = <<>> THEN "No responses submitted"
         ELSE ""

\* the error a handler raises on the interview it has read ("" when it goes on to write)
InterviewRejection(op, interview, user_id, question_id) ==
    IF interview.user_id # user_id THEN "Not authorized"
    ELSE IF op = "start_interview"
    THEN IF interview.status # "scheduled" THEN "Interview cannot be started" ELSE ""
    ELSE IF op = "submit_response"
    THEN IF interview.status # "in_progress" THEN "Interview is not in progress"
         ELSE IF question_id \notin Questions THEN "Question not found"
         ELSE IF Answered(interview.responses, question_id) THEN "Question already answered"
         ELSE ""
    ELSE IF interview.status = "completed" THEN "Interview already completed"
         ELSE IF interview.responses = <<>> THEN "No responses submitted"
         ELSE ""

\* the fields a handler hands to InterviewRepository.update
InterviewUpdateData(op, interview, question_id) ==
    IF op = "start_interview" THEN [status |-> "in_progress"]
    ELSE IF op = "submit_response" THEN [responses |-> Append(interview.responses, question_id)]
    ELSE [status |-> "completed"]

InterviewResponse(op, i, question_id, status, detail) ==
    [ op |-> op, interview_id |-> i, question_id |-> question_id,
      status |-> status, detail |-> detail ]

\* the first half of a handler: get_interview and the checks on what it returned
InterviewRead(w, op, i, user_id, question_id) ==
    /\ req[w].pc = "idle"
    /\ IF ~interviews[i].exists
       THEN /\ last' = InterviewResponse(op, i, question_id, 404, "Interview not found")
            /\ req' = req
       ELSE LET interview == interviews[i]
                rejection == InterviewRejection(op, interview, user_id, question_id)
            IN  IF rejection # ""
                THEN /\ last' = InterviewResponse(op, i, question_id,
                                    IF rejection = "Question not found" THEN 404 ELSE 400,
                                    rejection)
                     /\ req' = req
                ELSE /\ last' = last
                     /\ req' = [req EXCEPT ![w] =
                                   [ pc |-> "read", op |-> op, interview_id |-> i,
                                     question_id |-> question_id,
                                     data |-> InterviewUpdateData(op, interview, question_id) ]]
    /\ UNCHANGED <<users, issued, clock, applications, interviews, acknowledged, jobStore,
                   resumeStore, jobsIndex, resumesIndex, collections, minted, score>>

\* InterviewRepository.update: doc_ref.update(data) replaces the fields named in data
UpdatedInterview(interview, data) ==
    [f \in DOMAIN interview |-> IF f \in DOMAIN data THEN data[f] ELSE interview[f]]

\* the second half of a handler: the update and the response
InterviewWrite(w) ==
    /\ req[w].pc = "read"
    /\ LET i == req[w].interview_id
           op == req[w].op
       IN  /\ interviews' = [interviews EXCEPT ![i] = UpdatedInterview(@, req[w].data)]
           /\ last' = InterviewResponse(op, i, req[w].question_id, 200, "")
           /\ acknowledged' = IF op = "submit_response"
                              THEN acknowledged \cup {<<i, req[w].question_id>>}
                              ELSE acknowledged
    /\ req' = [req EXCEPT ![w] = [pc |-> "idle"]]
    /\ UNCHANGED <<users, issued, clock, applications, jobStore, resumeStore, jobsIndex,
                   resumesIndex, collections, minted, score>>

NextInterviews ==
    \/ \E i \in InterviewIds, user_id \in Uploaders : CreateInterview(i, user_id)
    \/ \E w \in Workers, op \in InterviewOps, i \in InterviewIds, user_id \in UserIds :
          \E question_id \in (IF op = "submit_response" THEN AskedQuestions ELSE {""}) :
              InterviewRead(w, op, i, user_id, question_id)
    \/ \E w \in Workers : InterviewWrite(w)

SpecInterviews == Init /\ [][NextInterviews]_vars

\* a handler that starts while no other request is in flight: with its write it
\* makes up one whole request served without another one in between
InterviewReadAlone(w, op, i, user_id, question_id) ==
    /\ \A v \in Workers : req[v].pc = "idle"
    /\ InterviewRead(w, op, i, user_id, question_id)

\* requests served one after the other
NextInterviewSession ==
    \/ \E i \in InterviewIds, user_id \in Uploaders : CreateInterview(i, user_id)
    \/ \E w \in Workers, op \in InterviewOps, i \in InterviewIds, user_id \in UserIds :
          \E question_id \in (IF op = "submit_response" THEN AskedQuestions ELSE {""}) :
              InterviewReadAlone(w, op, i, user_id, question_id)
    \/ \E w \in Workers : InterviewWrite(w)

SpecInterviewSession == Init /\ [][NextInterviewSession]_vars

----------------------------------------------------------------------------
(* C5: every score reported by calculate_match_score lies in [0,100]       *)
(* (0..1000 tenths of a percent), for every similarity in [-1,1], every    *)
(* pair of skill lists, every years >= 0 and every level label.            *)
C5_ScoresWithinBounds ==
    score.pc = "returned" =>
        /\ score.result.overall_score \in 0..1000
        /\ score.result.semantic_score \in 0..1000
        /\ score.result.skill_score \in 0..1000
        /\ score.result.experience_score \in 0..1000

\* the level the thresholds give when applied to the reported overall_score
LevelOfReported(overall_score) ==
    IF overall_score >= 800 THEN "Excellent Match"
    ELSE IF overall_score >= 600 THEN "Good Match"
    ELSE IF overall_score >= 400 THEN "Partial Match"
    ELSE "Low Match"

(* C6: match_level is determined by the reported overall_score: >= 80.0    *)
(* Excellent, [60.0, 80.0) Good, [40.0, 60.0) Partial, < 40.0 Low.         *)
C6_LevelFollowsReportedScore ==
    score.pc = "returned" =>
        score.result.match_level = LevelOfReported(score.result.overall_score)

----------------------------------------------------------------------------
(* Properties of the ranking calls and of the indexes *)

\* the entries of a response's scored list that the returned list leaves out
LeftOut(response) ==
    {i \in 1..Len(response.scored) :
        \A k \in 1..Len(response.result) : response.result[k].hit # response.scored[i].hit}

(* C1: every candidate returned by find_matching_candidates has               *)
(* match_score = round((0.60*semantic + 0.40*skillScore)*100, 1), semantic     *)
(* being the similarity of its hit and skillScore the fraction of the job's    *)
(* required skills found, case-insensitively, in the candidate's skills.       *)
C1_CandidateScoreBlendsSkills ==
    (last.op = "find_matching_candidates" /\ last.returned) =>
        \A k \in 1..Len(last.result) :
            LET item == last.result[k]
                hit == last.hits[item.hit]
                skill_analysis == AnalyzeSkills(hit.payload.skills, last.args.job_skills)
            IN  item.match_score =
                    ListMatchScore(hit.score, SkillScore(skill_analysis.match_percentage))

(* C2: after any sequence of index-endpoint, upload and update requests the    *)
(* vector index holds at most one point per job id and at most one point per   *)
(* resume id.                                                                  *)
C2_OnePointPerEntity ==
    /\ \A p1, p2 \in Points(jobsIndex) :
           jobsIndex[p1].job_id = jobsIndex[p2].job_id => p1 = p2
    /\ \A p1, p2 \in Points(resumesIndex) :
           resumesIndex[p1].resume_id = resumesIndex[p2].resume_id => p1 = p2

(* C3: when two index_job requests for the same job have both completed,       *)
(* however their steps interleaved, the index holds exactly one point for that *)
(* job and the job's stored embedding_id names that point.                     *)
C3_InterleavedIndexJobOnePoint ==
    \A j \in JobIds :
        (/\ \A w \in Workers : req[w].pc = "done" /\ req[w].job_id = j
         /\ jobStore[j].exists)
        => /\ Cardinality({p \in Points(jobsIndex) : jobsIndex[p].job_id = j}) = 1
           /\ jobStore[j].embedding_id \in Points(jobsIndex)
           /\ jobsIndex[jobStore[j].embedding_id].job_id = j

(* C4: once delete_resume has removed a resume from the primary store, no      *)
(* find_matching_candidates call returns it: every returned candidate has a    *)
(* record in the resume store.                                                 *)
C4_DeletedResumeNotReturned ==
    (last.op = "find_matching_candidates" /\ last.returned) =>
        \A k \in 1..Len(last.result) : resumeStore[last.result[k].resume_id].exists

(* C7: for limit >= 1, find_matching_jobs and find_matching_candidates return  *)
(* the top of the scored hits: at most `limit` items, in descending            *)
(* match_score order, and no scored hit left out has a match_score strictly    *)
(* greater than a returned one.                                                *)
C7_ReturnsTopOfScoredHits ==
    (last.op \in {"find_matching_jobs", "find_matching_candidates"} /\ last.returned) =>
        /\ Len(last.result) <= last.limit
        /\ \A k \in 1..(Len(last.result) - 1) :
               last.result[k].match_score >= last.result[k + 1].match_score
        /\ \A i \in LeftOut(last), k \in 1..Len(last.result) :
               last.scored[i].match_score <= last.result[k].match_score
        /\ \A k \in 1..Len(last.result) :
               \E i \in 1..Len(last.scored) : last.scored[i] = last.result[k]
        /\ Len(last.result) = Min(last.limit, Len(last.scored))

\* find_matching_jobs cut a list whose hit order was not the match_score order
C7_Witness ==
    /\ last.op = "find_matching_jobs" /\ last.returned
    /\ Len(last.scored) = 2 /\ Len(last.result) = 1
    /\ last.scored[1].match_score < last.scored[2].match_score
    /\ last.result[1] = last.scored[2]

(* C8: when indexing (the embedding, the vector upsert or the write of          *)
(* embedding_id) fails during upload_resume, no error is raised, the resume is  *)
(* returned to the caller and its record is in the primary store.               *)
C8_UploadSurvivesIndexingFailure ==
    (last.op = "upload_resume" /\ last.fail \in {"embed", "ensure", "index", "write"}) =>
        /\ ~last.raised
        /\ last.returned # 0
        /\ resumeStore[last.returned].exists

\* an upload whose vector upsert failed: the record is there, without a handle
C8_Witness ==
    /\ last.op = "upload_resume" /\ last.fail = "index"
    /\ resumeStore[last.resume_id].exists
    /\ resumeStore[last.resume_id].embedding_id = 0
    /\ Points(resumesIndex) = {}

(* C9: when the embedding call or the index search fails during                 *)
(* find_matching_jobs, find_matching_candidates or search_jobs_semantic, the    *)
(* call raises and returns no list.                                             *)
C9_RankingFailsLoudly ==
    (/\ last.op \in {"find_matching_jobs", "find_matching_candidates", "search_jobs_semantic"}
     /\ last.fail \in {"embed", "ensure", "index"})
    => last.raised /\ ~last.returned /\ last.result = <<>>

\* a candidate search whose index search failed although the index holds resumes
C9_Witness ==
    /\ last.op = "find_matching_candidates" /\ last.fail = "index" /\ last.raised
    /\ Points(resumesIndex) # {}

\* the `continue` that follows a successful job lookup
PostFiltered(response, job) ==
    IF response.op = "find_matching_jobs"
    THEN SalaryTooLow(job, response.args.salary_min)
    ELSE response.args.company # "" /\ CompanyMismatch(response.args.company, job.company)

(* C10: in find_matching_jobs and search_jobs_semantic a hit whose job_id has   *)
(* no record in the job store is left out without raising, and every other hit  *)
(* of the search is still processed: it is scored unless its own filter drops it.*)
C10_DanglingHitsSkipped ==
    (last.op \in {"find_matching_jobs", "search_jobs_semantic"} /\ last.fail = "none") =>
        /\ last.returned /\ ~last.raised
        /\ \A i \in 1..Len(last.hits) :
               LET job == jobStore[last.hits[i].payload.job_id]
                   kept == \E k \in 1..Len(last.scored) : last.scored[k].hit = i
               IN  IF job.exists THEN kept <=> ~PostFiltered(last, job) ELSE ~kept

\* a job search whose first hit has lost its job record and whose second hit is returned
C10_Witness ==
    /\ last.op = "find_matching_jobs" /\ last.returned
    /\ Len(last.hits) = 2
    /\ ~jobStore[last.hits[1].payload.job_id].exists
    /\ Len(last.result) = 1 /\ last.result[1].hit = 2

(* C11: calling index_job twice in a row on a job that already has an           *)
(* embedding handle upserts that handle both times: each call returns the job's *)
(* existing handle, the index holds as many points after the second call as     *)
(* after the first, and embedding_id is not written to the job again.           *)
C11_ReindexReusesHandle ==
    (/\ last.op = "index_job" /\ ~last.raised /\ last.repeated
     /\ last.previous.had_handle # 0)
    => /\ last.previous.embedding_id = last.previous.had_handle
       /\ last.had_handle = last.previous.had_handle
       /\ last.embedding_id = last.had_handle
       /\ last.upserted
       /\ last.count_after = last.previous.count_after
       /\ ~last.wrote_back
       /\ jobStore[last.job_id].embedding_id = last.had_handle
       /\ jobsIndex[last.had_handle].exists
       /\ jobsIndex[last.had_handle].job_id = last.job_id

\* the second of two index_job calls on an indexed job, next to another indexed job
C11_Witness ==
    /\ last.op = "index_job" /\ ~last.raised /\ last.repeated
    /\ last.previous.had_handle # 0
    /\ last.embedding_id = last.previous.had_handle
    /\ last.count_after = 2

RankingOps == {"find_matching_jobs", "find_matching_candidates", "search_jobs_semantic"}

(* C12: find_matching_jobs, find_matching_candidates, search_jobs_semantic and  *)
(* calculate_match_score leave the vector index (its collections and its        *)
(* points) and the primary job and resume stores unchanged; the index is        *)
(* written by the indexing calls only.                                          *)
C12_RankingWritesNothing ==
    [][ (last'.op \in RankingOps \/ score' # score)
            => UNCHANGED <<collections, jobsIndex, resumesIndex, jobStore, resumeStore>> ]_vars

(* C13: two calculate_match_score calls on the same resume and job (same        *)
(* similarity, same skill lists) return identical results, including the order  *)
(* of matching_skills, missing_skills and extra_skills and the recommendation   *)
(* strings with the first three missing and extra skills they name.             *)
C13_RepeatedScoreIdentical ==
    (\A w \in Workers : req[w].pc = "scored") =>
        \A w1, w2 \in Workers : req[w1].result = req[w2].result

(* C14: every job returned by the GET /jobs matching endpoint for a request     *)
(* with minimum match score min_score has match_score >= min_score.             *)
C14_MatchScoreAtLeastMinScore ==
    (last.op = "find_matching_jobs" /\ last.returned) =>
        \A k \in 1..Len(last.result) : last.result[k].match_score >= last.args.min_score

(* C15: calculate_match_score reports                                           *)
(*   overall_score = round((0.50*semantic + 0.35*skillScore + 0.15*expScore)*100, 1) *)
(* and semantic_score, skill_score and experience_score are the three factors   *)
(* times 100 rounded to one decimal; skillScore is the comparator's match       *)
(* percentage over 100, expScore the experience fit.  All in tenths of a percent.*)
C15_DetailedScoreIsWeightedSum ==
    score.pc = "returned" =>
        LET semantic == score.similarity
            percentage == AnalyzeSkills(score.resume_skills, score.job_skills).match_percentage
            expScore == CalculateExperienceScore(score.years, score.level)
        IN  /\ score.result.overall_score =
                   RoundHalfEven(50 * semantic * ExpScale + 35 * percentage * ExpScale
                                     + 15 * expScore * SimScale,
                                 100 * ExpScale)
            /\ score.result.semantic_score = semantic
            /\ score.result.skill_score = percentage
            /\ score.result.experience_score = RoundHalfEven(expScore * 1000, ExpScale)

\* semantic 0.9, every required skill present, experience within the band: 95.0
C15_Witness ==
    /\ score.pc = "returned"
    /\ score.similarity = 900
    /\ score.job_skills # <<>>
    /\ score.result.skill_score = 1000
    /\ score.result.experience_score = 1000
    /\ score.result.overall_score = 950
    /\ score.result.match_level = "Excellent Match"

(* C16: every job returned by find_matching_jobs has                            *)
(*   match_score = round((0.60*semantic + 0.40*skillScore)*100, 1),             *)
(* semantic being the similarity of its hit and skillScore the skill match of   *)
(* the resume against the job; experience and level do not enter the score.     *)
C16_ListScoreIsWeightedSum ==
    (last.op = "find_matching_jobs" /\ last.returned) =>
        \A k \in 1..Len(last.result) :
            LET item == last.result[k]
                semantic == last.hits[item.hit].score
                job == jobStore[item.job_id]
                percentage ==
                    AnalyzeSkills(last.args.resume_skills, job.skills_required).match_percentage
            IN  item.match_score = RoundHalfEven(60 * semantic + 40 * percentage, 100)

\* a returned job with a required level, half of whose skills the resume has
C16_Witness ==
    /\ last.op = "find_matching_jobs" /\ last.returned
    /\ \E k \in 1..Len(last.result) :
          /\ jobStore[last.result[k].job_id].experience_level = "senior"
          /\ last.result[k].semantic_score = 905
          /\ last.result[k].skill_score = 500
          /\ last.result[k].match_score = 743

\* the lower-cased entries of a skill list, each counted once
DistinctLower(skills) == {Lower(skills[i]) : i \in DOMAIN skills}

(* C17 as stated: for all skill lists A and every non-empty list B, repeated    *)
(* entries and entries differing only in letter case included,                  *)
(* |matching| + |missing| == |B| and matchPercentage == 100 * |matching| / |B|  *)
(* (to the one decimal the comparator reports), |B| being the length of B.      *)
C17_SkillCountsAgainstLength ==
    (score.pc = "returned" /\ score.job_skills # <<>>) =>
        /\ Cardinality(score.result.matching) + Cardinality(score.result.missing)
               = Len(score.job_skills)
        /\ score.result.match_percentage
               = RoundHalfEven(1000 * Cardinality(score.result.matching), Len(score.job_skills))

(* C17 amended: for all skill lists A and every non-empty list B, with n the    *)
(* number of distinct lower-cased entries of B, |matching| + |missing| == n and *)
(* matchPercentage == round(100 * |matching| / n, 1); n is the length of B when *)
(* B has no repeated entries and no two entries differing only in letter case.  *)
C17_SkillCountsAgainstDistinct ==
    (score.pc = "returned" /\ score.job_skills # <<>>) =>
        LET n == Cardinality(DistinctLower(score.job_skills))
        IN  /\ Cardinality(score.result.matching) + Cardinality(score.result.missing) = n
            /\ score.result.match_percentage
                   = RoundHalfEven(1000 * Cardinality(score.result.matching), n)
            /\ (\A i, k \in DOMAIN score.job_skills :
                    Lower(score.job_skills[i]) = Lower(score.job_skills[k]) => i = k)
                => n = Len(score.job_skills)

\* a job list naming one skill in two spellings next to a skill the resume lacks
C17_Witness ==
    /\ score.pc = "returned"
    /\ score.resume_skills = <<"python">>
    /\ score.job_skills = <<"Python", "python", "Docker">>
    /\ Cardinality(score.result.matching) = 1
    /\ Cardinality(score.result.missing) = 1
    /\ score.result.match_percentage = 500

\* str.upper() on the lower-cased labels of the model
Upper(s) ==
    CASE s = "python" -> "PYTHON"
      [] s = "aws" -> "AWS"
      [] s = "docker" -> "DOCKER"
      [] s = "kubernetes" -> "KUBERNETES"
      [] OTHER -> s

\* the display form of a lower-cased skill: upper-case up to 3 characters, else Title Case
DisplayForm(s) == IF Len(s) <= 3 THEN Upper(s) ELSE Title(s)

(* C18: every skill in the matching, missing and extra lists is in display      *)
(* form: Title Case when its lowercase form is longer than 3 characters, fully  *)
(* upper-case when it has at most 3 characters ("aws" is shown as "AWS").       *)
C18_SkillsInDisplayForm ==
    score.pc = "returned" =>
        LET a == DistinctLower(score.resume_skills)
            b == DistinctLower(score.job_skills)
        IN  /\ score.result.matching = {DisplayForm(x) : x \in a \cap b}
            /\ score.result.missing = {DisplayForm(x) : x \in b \ a}
            /\ score.result.extra = {DisplayForm(x) : x \in a \ b}

(* C19: when the job's skills_required list is empty, the skill comparator      *)
(* reports match_percentage 100 and empty matching and missing lists for every  *)
(* resume skill list, and find_matching_jobs and calculate_match_score report   *)
(* skill_score 100.                                                             *)
C19_NoRequirementsFullSkillScore ==
    /\ (score.pc = "returned" /\ score.job_skills = <<>>) =>
           IF "skill_score" \in DOMAIN score.result
           THEN /\ score.result.skill_score = 1000
                /\ score.result.skill_match_percentage = 1000
                /\ score.result.matching_skills = {}
                /\ score.result.missing_skills = {}
           ELSE /\ score.result.match_percentage = 1000
                /\ score.result.matching = {}
                /\ score.result.missing = {}
    /\ (last.op = "find_matching_jobs" /\ last.returned) =>
           \A k \in 1..Len(last.result) :
               jobStore[last.result[k].job_id].skills_required = <<>> =>
                   /\ last.result[k].skill_score = 1000
                   /\ last.result[k].skill_match_percentage = 1000
                   /\ last.result[k].matching_skills = {}
                   /\ last.result[k].missing_skills = {}

\* a detailed score for a resume with three skills against a job that requires none
C19_Witness ==
    /\ score.pc = "returned"
    /\ score.job_skills = <<>>
    /\ score.resume_skills = <<"Python", "aws", "Docker">>
    /\ score.result.skill_score = 1000
    /\ Cardinality(score.result.extra_skills) = 3

\* the band table of the reference, <<min, max>> per lower-cased label
ReferenceBands ==
    [ entry |-> <<0, 2>>, junior |-> <<1, 3>>, mid |-> <<3, 5>>,
      senior |-> <<5, 10>>, lead |-> <<7, 15>>, principal |-> <<10, 20>> ]

ReferenceBand(label) ==
    IF LowerLevel(label) \in DOMAIN ReferenceBands
    THEN ReferenceBands[LowerLevel(label)]
    ELSE ReferenceBands.mid

(* C20: for every years >= 0 and every level label _calculate_experience_score  *)
(* equals the reference: with [min, max] the band of the lower-cased label (mid *)
(* for an unknown or empty one), 1.0 if min <= years <= max, max(0.5, years/min)*)
(* if years < min, max(0.7, 1 - (years - max)*0.05) if years > max; the         *)
(* quotient is never taken with min = 0.  The score v is in units of 1/ExpScale.*)
C20_ExperienceScoreIsReference ==
    (score.pc = "returned" /\ "value" \in DOMAIN score.result) =>
        LET min == ReferenceBand(score.level)[1]
            max == ReferenceBand(score.level)[2]
            years == score.years
            v == score.result.value
        IN  /\ (min <= years /\ years <= max) => v = ExpScale
            /\ years < min =>
                   /\ min # 0
                   /\ 2 * min * v = Max(min * ExpScale, 2 * years * ExpScale)
            /\ years > max =>
                   20 * v = Max(14 * ExpScale, 20 * ExpScale - (years - max) * ExpScale)

\* 4 years against "Senior" (band 5-10): max(0.5, 4/5) = 0.8
C20_Witness ==
    /\ score.pc = "returned" /\ "value" \in DOMAIN score.result
    /\ score.years = 4 /\ score.level = "Senior"
    /\ 10 * score.result.value = 8 * ExpScale

(* C21: for each fixed seniority band the experience score is 1.0 for every     *)
(* years inside [min, max], does not increase as years moves one further below  *)
(* min or one further above max, and is never below 0.5 for under-experience    *)
(* nor below 0.7 for over-experience.                                           *)
C21_ExperienceScoreMonotone ==
    (score.pc = "returned" /\ "value" \in DOMAIN score.result) =>
        LET min == ReferenceBand(score.level)[1]
            max == ReferenceBand(score.level)[2]
            years == score.years
            v == score.result.value
        IN  /\ (min <= years /\ years <= max) => v = ExpScale
            /\ years < min =>
                   /\ 2 * v >= ExpScale
                   /\ v <= CalculateExperienceScore(years + 1, score.level)
                   /\ years >= 1 => CalculateExperienceScore(years - 1, score.level) <= v
            /\ years > max =>
                   /\ 10 * v >= 7 * ExpScale
                   /\ v <= CalculateExperienceScore(years - 1, score.level)
                   /\ CalculateExperienceScore(years + 1, score.level) <= v

\* 12 years against "senior" (band 5-10): max(0.7, 1 - 2*0.05) = 0.9, below the score at 11
C21_Witness ==
    /\ score.pc = "returned" /\ "value" \in DOMAIN score.result
    /\ score.years = 12 /\ score.level = "senior"
    /\ 10 * score.result.value = 9 * ExpScale
    /\ CalculateExperienceScore(11, "senior") > score.result.value

\* the recommendation rules in their fixed order
RuleOrder ==
    <<"consider_learning", "acquire_skills", "experience_gap",
      "strong_match", "good_potential", "highlight_extra">>

\* combined*100 of the scored pair as a fraction: <<numerator, denominator>>
ScoredCombined ==
    LET percentage == AnalyzeSkills(score.resume_skills, score.job_skills).match_percentage
        expScore == CalculateExperienceScore(score.years, score.level)
    IN  << 50 * score.similarity * ExpScale + 35 * percentage * ExpScale
               + 15 * expScore * SimScale,
           ExpScale * SimScale >>

\* the rules that fire for the scored pair
RulesFired ==
    LET skills == AnalyzeSkills(score.resume_skills, score.job_skills)
        expScore == CalculateExperienceScore(score.years, score.level)
        c == ScoredCombined
    IN  (IF skills.missing # {} THEN {"consider_learning"} ELSE {})
        \cup (IF skills.match_percentage < 500 THEN {"acquire_skills"} ELSE {})
        \cup (IF 10 * expScore < 7 * ExpScale THEN {"experience_gap"} ELSE {})
        \cup (IF c[1] >= 70 * c[2] THEN {"strong_match"} ELSE {})
        \cup (IF c[1] >= 50 * c[2] /\ c[1] < 70 * c[2] THEN {"good_potential"} ELSE {})
        \cup (IF skills.extra # {} THEN {"highlight_extra"} ELSE {})

(* C22: the recommendation list of calculate_match_score is the first four (or  *)
(* all, if fewer fire) of the rules that fire, in the fixed order: missing      *)
(* skills non-empty, skill match percentage < 50, expScore < 0.7, one of        *)
(* "strong match" (combined >= 0.7) or "good potential" (0.5 <= combined < 0.7) *)
(* or neither, extra skills non-empty; never more than 4 entries, never both    *)
(* encouragement strings.                                                       *)
C22_RecommendationsInRuleOrder ==
    (score.pc = "returned" /\ "recommendations" \in DOMAIN score.result) =>
        LET fired == SelectSeq(RuleOrder, LAMBDA r : r \in RulesFired)
            recs == score.result.recommendations
        IN  /\ recs = Take(fired, 4)
            /\ Len(recs) <= 4
            /\ ~ (\E i, k \in DOMAIN recs : recs[i] = "strong_match" /\ recs[k] = "good_potential")

\* all five kinds of rule fire: the list stops after the encouragement string
C22_Witness ==
    /\ score.pc = "returned" /\ "recommendations" \in DOMAIN score.result
    /\ Cardinality(RulesFired) = 5
    /\ score.result.recommendations =
           <<"consider_learning", "acquire_skills", "experience_gap", "good_potential">>

\* a returned call with no missing and no extra skills and 0.5 <= combined < 0.7
GoodPotentialCase ==
    /\ score.pc = "returned" /\ "recommendations" \in DOMAIN score.result
    /\ score.result.missing_skills = {}
    /\ score.result.extra_skills = {}
    /\ ScoredCombined[1] >= 50 * ScoredCombined[2]
    /\ ScoredCombined[1] < 70 * ScoredCombined[2]

(* C23, as stated: whenever the missing and extra skill lists are both empty    *)
(* and the combined score is in [0.5, 0.7), the recommendation list of          *)
(* calculate_match_score contains exactly one string, the "good potential" one, *)
(* whatever the experience score is.                                            *)
C23_OnlyGoodPotential ==
    GoodPotentialCase => score.result.recommendations = <<"good_potential">>

(* C23, amended: in that case the list holds the "good potential" string and no *)
(* skill-gap string; it is the only string when expScore >= 0.7, and it follows *)
(* the experience-gap string when expScore < 0.7.                               *)
C23_GoodPotentialAfterExperienceGap ==
    GoodPotentialCase =>
        LET expScore == CalculateExperienceScore(score.years, score.level)
            recs == score.result.recommendations
        IN  /\ \A i \in DOMAIN recs : recs[i] \notin {"consider_learning", "acquire_skills"}
            /\ 10 * expScore >= 7 * ExpScale => recs = <<"good_potential">>
            /\ 10 * expScore < 7 * ExpScale => recs = <<"experience_gap", "good_potential">>

\* a candidate far short of the level's years, every required skill matched
C23_Witness ==
    /\ GoodPotentialCase
    /\ score.job_skills # <<>>
    /\ 10 * CalculateExperienceScore(score.years, score.level) < 7 * ExpScale
    /\ score.result.recommendations = <<"experience_gap", "good_potential">>

(* C28: after delete_job has soft-deleted a job (is_active false in the primary *)
(* store), no later find_matching_jobs or search_jobs_semantic call returns it: *)
(* the results hold only jobs that are active in the primary store at the time  *)
(* of the call.                                                                 *)
C28_ResultsOnlyActiveJobs ==
    (last.op \in {"find_matching_jobs", "search_jobs_semantic"} /\ last.returned) =>
        \A k \in 1..Len(last.result) :
            LET job == jobStore[last.result[k].job_id]
            IN  job.exists /\ job.is_active

(* C24: an OTP yields tokens at most once: after a verify_otp call succeeds for *)
(* a user, every further verify_otp call with that same code is rejected (400,  *)
(* no OTP found) until a new send_otp is made for that email, and after a new   *)
(* send_otp only the newest code is accepted.                                   *)
C24_OtpRedeemedAtMostOnce ==
    /\ \A e \in Emails : issued[e].tokens <= 1
    /\ last.op = "verify_otp" =>
           /\ last.redeemed >= 1 =>
                  /\ last.status = 400 /\ last.detail = "No OTP found"
                  /\ ~last.tokens
           /\ last.tokens => last.otp = issued[last.email].code

\* the code that was just redeemed is submitted again and refused
C24_Witness ==
    /\ last.op = "verify_otp"
    /\ last.redeemed = 1
    /\ last.otp = issued[last.email].code
    /\ last.status = 400 /\ last.detail = "No OTP found"
    /\ users[last.email].is_verified

(* C25: verify_otp fails with 404 when no user has the email, 400 when the user *)
(* has no OTP stored, 400 when the stored OTP has expired (even if the          *)
(* submitted code is right), and 401 when the code is wrong and unexpired; in   *)
(* every such failure otp_code, otp_expires_at and is_verified of the user are  *)
(* left unchanged and no token is issued.                                       *)
C25_VerifyOtpFailures ==
    last.op = "verify_otp" =>
        LET u == last.before
            stored == u.exists /\ u.otp_code # None
            expired == stored /\ u.otp_expires_at # NoTime /\ u.otp_expires_at < last.at
        IN  /\ ~u.exists => last.status = 404
            /\ (u.exists /\ u.otp_code = None) => last.status = 400
            /\ expired => last.status = 400
            /\ (stored /\ ~expired /\ u.otp_code # last.otp) => last.status = 401
            /\ last.status # 200 =>
                   /\ users[last.email] = u
                   /\ ~last.tokens
                   /\ issued[last.email].tokens = last.redeemed

\* the right code, submitted after it has expired
C25_Witness ==
    /\ last.op = "verify_otp"
    /\ last.before.exists /\ last.before.otp_code = last.otp
    /\ last.before.otp_expires_at < last.at
    /\ last.status = 400 /\ last.detail = "OTP has expired"
    /\ users[last.email].otp_code = last.otp

(* C26: for any interleaving of create_application requests (each a check for   *)
(* an existing application followed by an insert), a user never has two         *)
(* application records for the same job; a second application to a job already  *)
(* applied to is answered 400 and adds no record.                               *)
C26_OneApplicationPerUserAndJob ==
    /\ \A i, k \in DOMAIN applications :
           (applications[i].user_id = applications[k].user_id
            /\ applications[i].job_id = applications[k].job_id) => i = k
    /\ (last.op = "create_application"
        /\ ExistingApplication(last.rows_before, last.user_id, last.job_id)) =>
           /\ last.status = 400
           /\ applications = last.rows_before

\* the position of a status in the life of an interview
StatusRank(status) ==
    CASE status = "scheduled" -> 1 [] status = "in_progress" -> 2 [] status = "completed" -> 3

C30_AcknowledgedResponsesStored ==
    \A i \in InterviewIds :
        interviews[i].exists =>
            /\ \A q \in Questions :
                   <<i, q>> \in acknowledged => Answered(interviews[i].responses, q)
            /\ \A k, l \in DOMAIN interviews[i].responses :
                   interviews[i].responses[k] = interviews[i].responses[l] => k = l

(* C29: for any interleaving of set_primary_resume and upload_resume(is_primary *)
(* = true) requests of one user (each reading the current primary, unsetting    *)
(* it, then setting the new one), at most one of that user's resumes has        *)
(* is_primary = true once all requests have finished.                           *)
C29_AtMostOnePrimary ==
    (\A w \in Workers : req[w].pc = "idle") =>
        \A user_id \in UserIds : Cardinality(PrimaryResumes(resumeStore, user_id)) <= 1

====
